---- MODULE Spec2Model ----
(***************************************************************************)
(* Model of the ebcapture page loop (cli.rs), its capture tiers            *)
(* (capture.rs), page navigation (keyboard.rs) and window activation       *)
(* (window_manager.rs), as built for Windows (the cfg(windows) branches).  *)
(*                                                                         *)
(* Spec      : the program as written.  send_right_arrow, send_page_down   *)
(*             and send_space end in Ok(()) on every path.                 *)
(* SpecFault : the same program, with the Result of each injection call    *)
(*             abstracted to {Ok, Err}, so that the Err arms of            *)
(*             navigate_to_next_page and try_alternative_navigation run.   *)
(* SpecLive  : SpecFault with weak fairness of the steps capture_pages      *)
(*             takes by itself, for runs of at most MaxLivePages pages.    *)
(* SpecFocusFault : the same program, with the Result of each focus call   *)
(*             (bring_window_to_front_windows, ensure_window_focus)        *)
(*             abstracted to {Ok, Err}.                                    *)
(* SpecNormalize, SpecCrop, SpecFullCapture, SpecDirect : the pixel        *)
(*             conversions, crop_image_to_window,                          *)
(*             capture_full_screen_to_image and                            *)
(*             capture_window_direct_windows of capture.rs applied to      *)
(*             arguments drawn from bounded sets.                          *)
(* SpecStrategy : NavigationMethod::for_program applied to window titles.  *)
(* SpecPlatform : activate_and_bring_to_front, get_window_rect and         *)
(*             ensure_window_focus as each cfg target compiles them.       *)
(* SpecFocusGuard : the user32 calls of ensure_window_focus and            *)
(*             bring_window_to_front_windows applied to a window that is   *)
(*             normal, maximized or minimized.                             *)
(* SpecRetry : download_single_video of tubeloader applied to every        *)
(*             course its attempts can take.                               *)
(* SpecDownload, SpecDownloadLive : download_videos of tubeloader, the     *)
(*             semaphore and the buffered stream of download futures; the  *)
(*             second with weak fairness of the download steps.            *)
(* SpecThumbnail : the batch loop of thumbnail_maker in both modes.        *)
(***************************************************************************)
EXTENDS Integers, Sequences, FiniteSets, TLC

VARIABLES pc, page_count, title, window_valid, window_rect, page,
          captured_images, files, trace, last_cap, last_nav, last_focus,
          ret, pdf_pages, args, result

vars == <<pc, page_count, title, window_valid, window_rect, page,
          captured_images, files, trace, last_cap, last_nav, last_focus,
          ret, pdf_pages, args, result>>

\* Largest page_count the model draws (get_page_count accepts 1..999).
MaxPages == 3

\* Largest page_count of the runs whose termination is checked (SpecLive).
MaxLivePages == 2

\* Largest declared width and height of a raw frame, in pixels.
MaxWidth == 2
MaxHeight == 4

\* Window and image coordinates are drawn in steps of 50 pixels, up to
\* MaxCells steps either way.
MaxCells == 4

-----------------------------------------------------------------------------
(* Strings are sequences of one-character strings, so that to_lowercase    *)
(* and contains are computed and not assumed.  A Hangul syllable is        *)
(* written as its code point, "U+B9AC"; to_lowercase leaves it unchanged.  *)

Upper == <<"A","B","C","D","E","F","G","H","I","J","K","L","M",
           "N","O","P","Q","R","S","T","U","V","W","X","Y","Z">>
Lower == <<"a","b","c","d","e","f","g","h","i","j","k","l","m",
           "n","o","p","q","r","s","t","u","v","w","x","y","z">>

LowerChar(c) ==
    IF \E i \in 1..Len(Upper) : Upper[i] = c
    THEN Lower[CHOOSE i \in 1..Len(Upper) : Upper[i] = c]
    ELSE c

to_lowercase(s) == [i \in 1..Len(s) |-> LowerChar(s[i])]

contains(s, k) ==
    \E i \in 0..(Len(s) - Len(k)) : SubSeq(s, i + 1, i + Len(k)) = k

\* Window titles the selection step may hand over, one per branch of
\* for_program and one that matches no keyword.
Titles ==
    { <<"Y","E","S","2","4"," ","e","B","o","o","k">>,
      <<"c","a","l","i","b","r","e">>,
      <<"N","o","t","e","p","a","d">> }

\* The keywords for_program looks for, in the order of its branches, with the
\* method of each branch.
KeywordTable ==
    << [keyword |-> <<"r","i","d","i">>,                 method |-> "RightArrow"],
       [keyword |-> <<"U+B9AC","U+B514">>,               method |-> "RightArrow"],
       [keyword |-> <<"a","l","a","d","i","n">>,         method |-> "RightArrow"],
       [keyword |-> <<"U+C54C","U+B77C","U+B518">>,      method |-> "RightArrow"],
       [keyword |-> <<"y","e","s","2","4">>,             method |-> "Space"],
       [keyword |-> <<"U+C608","U+C2A4","2","4">>,       method |-> "Space"],
       [keyword |-> <<"k","i","n","d","l","e">>,         method |-> "RightArrow"],
       [keyword |-> <<"c","a","l","i","b","r","e">>,     method |-> "PageDown"] >>

\* Mutant of for_program: the title is matched as it is, without to_lowercase.
for_program_case_sensitive(program_name) ==
    LET name_lower == program_name IN
    IF contains(name_lower, <<"r","i","d","i">>)
       \/ contains(name_lower, <<"U+B9AC","U+B514">>)
    THEN "RightArrow"
    ELSE IF contains(name_lower, <<"a","l","a","d","i","n">>)
            \/ contains(name_lower, <<"U+C54C","U+B77C","U+B518">>)
    THEN "RightArrow"
    ELSE IF contains(name_lower, <<"y","e","s","2","4">>)
            \/ contains(name_lower, <<"U+C608","U+C2A4","2","4">>)
    THEN "Space"
    ELSE IF contains(name_lower, <<"k","i","n","d","l","e">>)
    THEN "RightArrow"
    ELSE IF contains(name_lower, <<"c","a","l","i","b","r","e">>)
    THEN "PageDown"
    ELSE "RightArrow"

\* NavigationMethod::for_program
for_program(program_name) ==
    LET name_lower == to_lowercase(program_name) IN
    IF contains(name_lower, <<"r","i","d","i">>)
       \/ contains(name_lower, <<"U+B9AC","U+B514">>)
    THEN "RightArrow"
    ELSE IF contains(name_lower, <<"a","l","a","d","i","n">>)
            \/ contains(name_lower, <<"U+C54C","U+B77C","U+B518">>)
    THEN "RightArrow"
    ELSE IF contains(name_lower, <<"y","e","s","2","4">>)
            \/ contains(name_lower, <<"U+C608","U+C2A4","2","4">>)
    THEN "Space"
    ELSE IF contains(name_lower, <<"k","i","n","d","l","e">>)
    THEN "RightArrow"
    ELSE IF contains(name_lower, <<"c","a","l","i","b","r","e">>)
    THEN "PageDown"
    ELSE "RightArrow"

-----------------------------------------------------------------------------
(* format!("page_{:03}.png", page)                                         *)

RECURSIVE DigitsOf(_)
DigitsOf(n) == IF n < 10 THEN <<n>> ELSE DigitsOf(n \div 10) \o <<n % 10>>

ZeroPad(d, width) ==
    IF Len(d) >= width THEN d ELSE [i \in 1..(width - Len(d)) |-> 0] \o d

PageFileName(p) == <<"page_">> \o ZeroPad(DigitsOf(p), 3) \o <<".png">>

-----------------------------------------------------------------------------
(* keyboard.rs: input injection and page navigation                        *)

\* Each send_* builds an Enigo, clicks its key and ends in Ok(()).
send_right_arrow == "Ok"
send_page_down == "Ok"
send_space == "Ok"

\* The faults an injection call can be given: "None" leaves the call's result
\* to the code, "Err" makes the call return Err (used by SpecFault only).
NoFaults == {"None"}
InjectionFaults == {"None", "Err"}

\* The faults a focus call (bring_window_to_front_windows, ensure_window_focus)
\* can be given; "Err" makes the call return Err (used by SpecFocusFault only).
FocusFaults == {"None", "Err"}

\* navigate_with_retry: one injection of `method` (its `?` passes an Err of
\* the send call through), then the 300 ms settle.
navigate_with_retry(method, fault) ==
    IF fault = "Err" THEN "Err"
    ELSE CASE method = "RightArrow" -> send_right_arrow
           [] method = "PageDown"   -> send_page_down
           [] method = "Space"      -> send_space

\* Mutant of methods: the first two alternatives in the other order.
methods_swapped == <<"PageDown", "RightArrow", "Space">>

\* The fixed list of try_alternative_navigation.
methods == <<"RightArrow", "PageDown", "Space">>

Injection(method, stage, res) == [method |-> method, stage |-> stage, res |-> res]

RECURSIVE AlternativesFrom(_, _, _)
AlternativesFrom(i, faults, inj) ==
    IF i > Len(methods)
    THEN [res |-> "Err", inj |-> inj]
    ELSE LET r == navigate_with_retry(methods[i], faults[i]) IN
         IF r = "Ok"
         THEN [res |-> "Ok", inj |-> Append(inj, Injection(methods[i], "alt", r))]
         ELSE AlternativesFrom(i + 1, faults, Append(inj, Injection(methods[i], "alt", r)))

\* Mutant of try_alternative_navigation: the loop's `return Ok(())` is lost,
\* so the function ends in KeyboardInputFailure after a success too.
try_alternative_navigation_always_err(faults) ==
    [res |-> "Err", inj |-> AlternativesFrom(1, faults, <<>>).inj]

\* try_alternative_navigation: `for method in &methods`, return at the first Ok,
\* KeyboardInputFailure after the last.
try_alternative_navigation(faults) == AlternativesFrom(1, faults, <<>>)

\* ensure_window_focus: SetForegroundWindow (with the AttachThreadInput
\* fallback), ShowWindow; no return value is turned into an Err, for a valid
\* and for an invalid window handle alike.
ensure_window_focus(valid, fault) == IF fault = "Err" THEN "Err" ELSE "Ok"

\* The calls one navigate_to_next_page makes, in order: ensure_window_focus,
\* then one navigate_with_retry per injection.
NavCalls(inj) ==
    <<"ensure_window_focus">> \o [i \in 1..Len(inj) |-> "navigate_with_retry"]

\* Mutant of navigate_to_next_page: when every alternative failed the chain
\* is gone through once more.
navigate_to_next_page_chain_again(valid, program_name, faults) ==
    LET navigation_method == for_program(program_name)
        r == navigate_with_retry(navigation_method, faults[1])
        primary == <<Injection(navigation_method, "primary", r)>>
        a == try_alternative_navigation(Tail(faults))
        inj == IF r = "Ok" THEN primary
               ELSE IF a.res = "Ok" THEN primary \o a.inj
               ELSE primary \o a.inj \o a.inj
    IN  [res |-> IF r = "Ok" THEN "Ok" ELSE a.res, focus |-> 1, focus_res |-> "Ok",
         inj |-> inj, calls |-> NavCalls(inj)]

\* Mutant of navigate_to_next_page: the key is sent first and
\* ensure_window_focus is called after the injections.
navigate_to_next_page_focus_last(valid, program_name, faults) ==
    LET navigation_method == for_program(program_name)
        r == navigate_with_retry(navigation_method, faults[1])
        primary == <<Injection(navigation_method, "primary", r)>>
        a == try_alternative_navigation(Tail(faults))
        inj == IF r = "Ok" THEN primary ELSE primary \o a.inj
        focus == ensure_window_focus(valid, faults[5])
    IN  [res |-> IF focus # "Ok" THEN "Err" ELSE IF r = "Ok" THEN "Ok" ELSE a.res,
         focus |-> 1, focus_res |-> focus, inj |-> inj,
         calls |-> [i \in 1..Len(inj) |-> "navigate_with_retry"]
                   \o <<"ensure_window_focus">>]

\* Mutant of navigate_to_next_page: a failed primary injection is repeated
\* once before the alternatives are tried.
navigate_to_next_page_retry_primary(valid, program_name, faults) ==
    LET navigation_method == for_program(program_name)
        r == navigate_with_retry(navigation_method, faults[1])
        primary == <<Injection(navigation_method, "primary", r)>>
    IN  IF r = "Ok"
        THEN [res |-> "Ok", focus |-> 1, focus_res |-> "Ok", inj |-> primary,
              calls |-> NavCalls(primary)]
        ELSE LET a == try_alternative_navigation(Tail(faults)) IN
             [res |-> a.res, focus |-> 1, focus_res |-> "Ok",
              inj |-> primary \o primary \o a.inj,
              calls |-> NavCalls(primary \o primary \o a.inj)]

\* Mutant of navigate_to_next_page: the Ok arm does not return, and the
\* alternatives run after a successful primary injection as well.
navigate_to_next_page_fallthrough(valid, program_name, faults) ==
    LET navigation_method == for_program(program_name)
        r == navigate_with_retry(navigation_method, faults[1])
        a == try_alternative_navigation(Tail(faults))
    IN  [res |-> IF r = "Ok" THEN "Ok" ELSE a.res, focus |-> 1,
         focus_res |-> "Ok",
         inj |-> <<Injection(navigation_method, "primary", r)>> \o a.inj,
         calls |-> NavCalls(<<Injection(navigation_method, "primary", r)>> \o a.inj)]

\* navigate_to_next_page; faults[1] is given to the primary injection,
\* faults[2..4] to the alternatives, faults[5] to ensure_window_focus, whose
\* Err the `?` returns before any injection.
navigate_to_next_page(valid, program_name, faults) ==
    LET focus == ensure_window_focus(valid, faults[5]) IN
    IF focus # "Ok"
    THEN [res |-> "Err", focus |-> 1, focus_res |-> focus, inj |-> <<>>,
          calls |-> NavCalls(<<>>)]
    ELSE LET navigation_method == for_program(program_name)
             r == navigate_with_retry(navigation_method, faults[1])
             primary == <<Injection(navigation_method, "primary", r)>>
         IN  IF r = "Ok"
             THEN [res |-> "Ok", focus |-> 1, focus_res |-> focus, inj |-> primary,
                   calls |-> NavCalls(primary)]
             ELSE LET a == try_alternative_navigation(Tail(faults)) IN
                  [res |-> a.res, focus |-> 1, focus_res |-> focus,
                   inj |-> primary \o a.inj,
                   calls |-> NavCalls(primary \o a.inj)]

-----------------------------------------------------------------------------
(* window_manager.rs                                                       *)

\* bring_window_to_front_windows ends in Ok(()) whatever the Win32 calls return.
bring_window_to_front_windows(valid, fault) == IF fault = "Err" THEN "Err" ELSE "Ok"

\* Mutant of activate_and_bring_to_front: the Err arm of the match returns
\* the error instead of going on.
activate_and_bring_to_front_propagate(valid, fault) ==
    bring_window_to_front_windows(valid, fault)

\* activate_and_bring_to_front (cfg(windows)): an Err of
\* bring_window_to_front_windows is logged and dropped.
activate_and_bring_to_front(valid, fault) ==
    IF bring_window_to_front_windows(valid, fault) = "Ok" THEN "Ok" ELSE "Ok"

\* get_window_rect_windows: GetWindowRect returns 0 for a handle that is no
\* longer a window.
get_window_rect(valid) == IF valid THEN "Ok" ELSE "Err"

NoRect == [x |-> 0, y |-> 0, width |-> 0, height |-> 0]
Rects == { [x |-> 0, y |-> 0, width |-> 2, height |-> 2],
           [x |-> 1, y |-> 1, width |-> 2, height |-> 1] }

-----------------------------------------------------------------------------
(* capture.rs: the two capture tiers                                       *)

\* What the Win32 calls of capture_window_direct_windows can do, in the order
\* the function makes them.
DirectScenarios ==
    {"print_ok", "bitblt_ok", "dc_null", "memdc_null", "bitmap_null",
     "bitblt_fail", "dib_fail"}

\* What each Win32 call of capture_window_direct_windows does in a scenario of
\* the page loop (TRUE: the call succeeds).
DirectCalls(window_dc, mem_dc, bitmap, print, bitblt, lines) ==
    [window_dc |-> window_dc, mem_dc |-> mem_dc, bitmap |-> bitmap,
     print |-> print, bitblt |-> bitblt, lines |-> lines]
ScenarioCalls(scen) ==
    CASE scen = "print_ok"    -> DirectCalls(TRUE, TRUE, TRUE, TRUE, TRUE, TRUE)
      [] scen = "bitblt_ok"   -> DirectCalls(TRUE, TRUE, TRUE, FALSE, TRUE, TRUE)
      [] scen = "dc_null"     -> DirectCalls(FALSE, TRUE, TRUE, TRUE, TRUE, TRUE)
      [] scen = "memdc_null"  -> DirectCalls(TRUE, FALSE, TRUE, TRUE, TRUE, TRUE)
      [] scen = "bitmap_null" -> DirectCalls(TRUE, TRUE, FALSE, TRUE, TRUE, TRUE)
      [] scen = "bitblt_fail" -> DirectCalls(TRUE, TRUE, TRUE, FALSE, FALSE, TRUE)
      [] scen = "dib_fail"    -> DirectCalls(TRUE, TRUE, TRUE, TRUE, TRUE, FALSE)

\* One Win32 call and whether it succeeded.
Call(name, ok) == [call |-> name, ok |-> ok]

\* What a capture_window_direct_windows call hands back: its Result and the
\* Win32 calls it made, in order.
Direct(res, log) == [res |-> res, log |-> log]

\* The `// cleanup` block: SelectObject(mem_dc, old_bitmap), DeleteObject(bitmap),
\* DeleteDC(mem_dc), ReleaseDC(hwnd, window_dc).
ReleaseAll ==
    <<Call("SelectObject", TRUE), Call("DeleteObject", TRUE),
      Call("DeleteDC", TRUE), Call("ReleaseDC", TRUE)>>

\* GetWindowDC, CreateCompatibleDC, CreateCompatibleBitmap with their early
\* returns, then SelectObject(mem_dc, bitmap).  GetWindowDC of a handle that is
\* no longer a window is NULL.  The result is "Go" when all three handles are
\* held.
AcquireHandles(valid, calls) ==
    IF ~(valid /\ calls.window_dc)
    THEN Direct("Err", <<Call("GetWindowDC", FALSE)>>)
    ELSE IF ~calls.mem_dc
    THEN Direct("Err", <<Call("GetWindowDC", TRUE), Call("CreateCompatibleDC", FALSE),
                         Call("ReleaseDC", TRUE)>>)
    ELSE IF ~calls.bitmap
    THEN Direct("Err", <<Call("GetWindowDC", TRUE), Call("CreateCompatibleDC", TRUE),
                         Call("CreateCompatibleBitmap", FALSE),
                         Call("DeleteDC", TRUE), Call("ReleaseDC", TRUE)>>)
    ELSE Direct("Go", <<Call("GetWindowDC", TRUE), Call("CreateCompatibleDC", TRUE),
                        Call("CreateCompatibleBitmap", TRUE),
                        Call("SelectObject", TRUE)>>)

\* GetDIBits, the cleanup block, then `if lines == 0`; the BGRA to RGBA
\* conversion and from_raw of a width*height*4 buffer succeed.
ExtractPixels(calls) ==
    Direct(IF calls.lines THEN "Ok" ELSE "Err",
           <<Call("GetDIBits", calls.lines)>> \o ReleaseAll)

\* Mutant of capture_window_direct_windows: the return after a failed BitBlt
\* has no cleanup in front of it.
capture_window_direct_windows_leak(valid, calls) ==
    LET a == AcquireHandles(valid, calls) IN
    IF a.res # "Go" THEN a
    ELSE IF calls.print
    THEN LET e == ExtractPixels(calls) IN
         Direct(e.res, a.log \o <<Call("PrintWindow", TRUE)>> \o e.log)
    ELSE IF ~calls.bitblt
    THEN Direct("Err", a.log \o <<Call("PrintWindow", FALSE), Call("BitBlt", FALSE)>>)
    ELSE LET e == ExtractPixels(calls) IN
         Direct(e.res, a.log \o <<Call("PrintWindow", FALSE), Call("BitBlt", TRUE)>>
                       \o e.log)

\* Mutant of capture_window_direct_windows: a failed PrintWindow is returned
\* as the failure; BitBlt is not tried.
capture_window_direct_windows_no_bitblt(valid, calls) ==
    LET a == AcquireHandles(valid, calls) IN
    IF a.res # "Go" THEN a
    ELSE IF calls.print
    THEN LET e == ExtractPixels(calls) IN
         Direct(e.res, a.log \o <<Call("PrintWindow", TRUE)>> \o e.log)
    ELSE Direct("Err", a.log \o <<Call("PrintWindow", FALSE)>> \o ReleaseAll)

\* capture_window_direct_windows: the handles, PrintWindow, BitBlt when
\* PrintWindow returned 0 (cleanup and Err when BitBlt returned 0 too), then
\* the extraction of the pixels.
capture_window_direct_windows(valid, calls) ==
    LET a == AcquireHandles(valid, calls) IN
    IF a.res # "Go" THEN a
    ELSE IF calls.print
    THEN LET e == ExtractPixels(calls) IN
         Direct(e.res, a.log \o <<Call("PrintWindow", TRUE)>> \o e.log)
    ELSE IF ~calls.bitblt
    THEN Direct("Err", a.log \o <<Call("PrintWindow", FALSE), Call("BitBlt", FALSE)>>
                       \o ReleaseAll)
    ELSE LET e == ExtractPixels(calls) IN
         Direct(e.res, a.log \o <<Call("PrintWindow", FALSE), Call("BitBlt", TRUE)>>
                       \o e.log)

\* What the display backend can do in one capture_full_screen_to_image call:
\* Display::primary or Capturer::new fails, or the three capturer.frame()
\* calls after the dropped one each give a frame, an empty frame or an Err;
\* size_ok says whether a non-empty frame has width*height*4 bytes.
NoFrames == [i \in 1..3 |-> "err"]
FullScenarios ==
    [open : {"no_display", "no_capturer"}, frames : {NoFrames}, size_ok : {FALSE}]
    \cup [open : {"ok"}, frames : [1..3 -> {"frame", "empty", "err"}], size_ok : BOOLEAN]

\* An image buffer: width, height, channels per pixel and the bytes.
Image(width, height, channels, data) ==
    [width |-> width, height |-> height, channels |-> channels, data |-> data]
NoImage == Image(0, 0, 0, <<>>)

\* What a conversion hands back: its Result, the image it built and the path
\* it wrote ("none", "output_path" or "bmp_path").
Converted(res, image, file) == [res |-> res, image |-> image, file |-> file]

\* ImageBuffer::from_raw is Some exactly when the buffer holds at least
\* width*height*channels bytes.
from_raw(width, height, channels, data) == Len(data) >= width * height * channels

\* Mutant of bgra_chunks_to_rgba: the bytes of a chunk are pushed in the order
\* they have.
bgra_chunks_to_rgba_no_swap(frame) ==
    [i \in 1..(Len(frame) - (Len(frame) % 4)) |-> frame[i]]

\* for chunk in frame.chunks_exact(4): push chunk[2], chunk[1], chunk[0], chunk[3]
bgra_chunks_to_rgba(frame) ==
    [i \in 1..(Len(frame) - (Len(frame) % 4)) |->
        LET k == (i - 1) % 4
            base == (i - 1) - k
        IN  frame[base + (CASE k = 0 -> 2 [] k = 1 -> 1 [] k = 2 -> 0 [] k = 3 -> 3) + 1]]

\* convert_frame_to_image: BGRA to RGBA when frame.len() == width*height*4,
\* CaptureFailure for every other length.
convert_frame_to_image(frame, width, height) ==
    IF Len(frame) = width * height * 4
    THEN LET rgba_data == bgra_chunks_to_rgba(frame) IN
         IF from_raw(width, height, 4, rgba_data)
         THEN Converted("Ok", Image(width, height, 4, rgba_data), "none")
         ELSE Converted("Err", NoImage, "none")
    ELSE Converted("Err", NoImage, "none")

\* The pixels of the `for y in 0..height { for x in 0..width` loops whose
\* index passes the `idx + last < frame.len()` test: a prefix of the pixels.
PixelsInFrame(frame, width, height, bytes_per_pixel) ==
    LET n == Len(frame) \div bytes_per_pixel IN
    IF n < width * height THEN n ELSE width * height

\* convert_bgra_to_rgba_fixed: the size test, the pixel loops, the length test,
\* from_raw and img.save(output_path).
convert_bgra_to_rgba_fixed(frame, width, height, png_ok) ==
    IF Len(frame) # width * height * 4 THEN Converted("Err", NoImage, "none")
    ELSE LET n == PixelsInFrame(frame, width, height, 4)
             rgba_data == [i \in 1..(4 * n) |->
                 LET k == (i - 1) % 4
                     idx == (i - 1) - k
                 IN  frame[idx + (CASE k = 0 -> 2 [] k = 1 -> 1 [] k = 2 -> 0 [] k = 3 -> 3) + 1]]
         IN  IF Len(rgba_data) # Len(frame) THEN Converted("Err", NoImage, "none")
             ELSE IF ~from_raw(width, height, 4, rgba_data)
             THEN Converted("Err", NoImage, "none")
             ELSE IF ~png_ok THEN Converted("Err", NoImage, "none")
             ELSE Converted("Ok", Image(width, height, 4, rgba_data), "output_path")

\* convert_bgr_to_rgba_fixed: the size test, the pixel loops with alpha 255,
\* from_raw and img.save(output_path).
convert_bgr_to_rgba_fixed(frame, width, height, png_ok) ==
    IF Len(frame) # width * height * 3 THEN Converted("Err", NoImage, "none")
    ELSE LET n == PixelsInFrame(frame, width, height, 3)
             rgba_data == [i \in 1..(4 * n) |->
                 LET k == (i - 1) % 4
                     idx == ((i - 1) \div 4) * 3
                 IN  IF k = 3 THEN 255 ELSE frame[idx + (2 - k) + 1]]
         IN  IF ~from_raw(width, height, 4, rgba_data)
             THEN Converted("Err", NoImage, "none")
             ELSE IF ~png_ok THEN Converted("Err", NoImage, "none")
             ELSE Converted("Ok", Image(width, height, 4, rgba_data), "output_path")

\* save_as_bmp_fixed: 4 bytes per pixel when frame.len() % (width*4) == 0 and 3
\* otherwise, the height that follows, zero padding for the pixels the frame
\* does not hold, and a 24-bit image saved at output_path.with_extension("bmp").
save_as_bmp_fixed(frame, width, height, bmp_ok) ==
    LET bytes_per_pixel == IF Len(frame) % (width * 4) = 0 THEN 4 ELSE 3
        actual_height == Len(frame) \div (width * bytes_per_pixel)
        rgb_data == [i \in 1..(width * actual_height * 3) |->
            LET k == (i - 1) % 3
                idx == ((i - 1) \div 3) * bytes_per_pixel
            IN  IF idx + 2 < Len(frame) THEN frame[idx + (2 - k) + 1] ELSE 0]
    IN  IF actual_height = 0 THEN Converted("Err", NoImage, "none")
        ELSE IF ~from_raw(width, actual_height, 3, rgb_data)
        THEN Converted("Err", NoImage, "none")
        ELSE IF ~bmp_ok THEN Converted("Err", NoImage, "none")
        ELSE Converted("Ok", Image(width, actual_height, 3, rgb_data), "bmp_path")

\* save_frame_as_image_smart, step 3 and step 4: when frame.len() % 4 == 0 and
\* the height that follows is in 1..=height*2, convert_bgra_to_rgba_fixed with
\* that height; save_as_bmp_fixed when that was not tried or failed.
recalculate_or_bmp(frame, width, height, png_ok, bmp_ok) ==
    LET calculated_height == (Len(frame) \div 4) \div width
        recalculated ==
            IF Len(frame) % 4 = 0 /\ calculated_height > 0
               /\ calculated_height <= height * 2
            THEN convert_bgra_to_rgba_fixed(frame, width, calculated_height, png_ok)
            ELSE Converted("Err", NoImage, "none")
    IN  IF recalculated.res = "Ok" THEN recalculated
        ELSE save_as_bmp_fixed(frame, width, height, bmp_ok)

\* save_frame_as_image_smart: step 1 (exact BGRA size), step 2 (exact BGR
\* size), then steps 3 and 4; an Err of a step is logged and the next is tried.
save_frame_as_image_smart(frame, width, height, png_ok, bmp_ok) ==
    LET bgra == IF Len(frame) = width * height * 4
                THEN convert_bgra_to_rgba_fixed(frame, width, height, png_ok)
                ELSE Converted("Err", NoImage, "none")
        bgr  == IF Len(frame) = width * height * 3
                THEN convert_bgr_to_rgba_fixed(frame, width, height, png_ok)
                ELSE Converted("Err", NoImage, "none")
    IN  IF bgra.res = "Ok" THEN bgra
        ELSE IF bgr.res = "Ok" THEN bgr
        ELSE recalculate_or_bmp(frame, width, height, png_ok, bmp_ok)

\* detect_pixel_format: the exact sizes first, then the two heights
\* frame_len/(width*4) and frame_len/(width*3), each tried as BGRA and as BGR
\* when it is in 1..=height*2; CaptureFailure when nothing fits.
detect_pixel_format(frame_len, width, height) ==
    LET pixel_count == width * height
        possible_heights == <<frame_len \div (width * 4), frame_len \div (width * 3)>>
        Fits(h, bytes) == h > 0 /\ h <= height * 2 /\ frame_len = width * h * bytes
        h1 == possible_heights[1]
        h2 == possible_heights[2]
    IN  IF frame_len = pixel_count * 4 THEN [res |-> "Ok", format |-> "Bgra"]
        ELSE IF frame_len = pixel_count * 3 THEN [res |-> "Ok", format |-> "Bgr"]
        ELSE IF Fits(h1, 4) THEN [res |-> "Ok", format |-> "Bgra"]
        ELSE IF Fits(h1, 3) THEN [res |-> "Ok", format |-> "Bgr"]
        ELSE IF Fits(h2, 4) THEN [res |-> "Ok", format |-> "Bgra"]
        ELSE IF Fits(h2, 3) THEN [res |-> "Ok", format |-> "Bgr"]
        ELSE [res |-> "Err", format |-> "None"]

\* The frame a capturer of a 1x1 display hands out in a scenario of the page
\* loop: width*height*4 bytes when size_ok, one byte short otherwise.
ScenarioFrame(size_ok) == IF size_ok THEN <<1, 2, 3, 4>> ELSE <<1, 2, 3>>

\* `for attempt in 1..=3`: a frame that is not empty is converted and the
\* result of the conversion returned; an empty frame and an Err go on to the
\* next attempt.  `attempts` counts the capturer.frame() calls of the loop,
\* `converted` is the attempt whose frame went to convert_frame_to_image.
RECURSIVE FrameAttempts(_, _)
FrameAttempts(attempt, fs) ==
    IF attempt > 3
    THEN [res |-> "Err", attempts |-> 3, converted |-> 0]
    ELSE IF fs.frames[attempt] = "frame"
         THEN [res |-> convert_frame_to_image(ScenarioFrame(fs.size_ok), 1, 1).res,
               attempts |-> attempt, converted |-> attempt]
         ELSE FrameAttempts(attempt + 1, fs)

\* The loop of a mutant: a frame whose conversion fails is passed over and the
\* next attempt made.
RECURSIVE FrameAttemptsUntilConverted(_, _)
FrameAttemptsUntilConverted(attempt, fs) ==
    IF attempt > 3
    THEN [res |-> "Err", attempts |-> 3, converted |-> 0]
    ELSE IF fs.frames[attempt] = "frame"
            /\ convert_frame_to_image(ScenarioFrame(fs.size_ok), 1, 1).res = "Ok"
         THEN [res |-> "Ok", attempts |-> attempt, converted |-> attempt]
         ELSE FrameAttemptsUntilConverted(attempt + 1, fs)

\* Mutant of capture_full_screen_to_image: the loop goes on after a frame
\* whose conversion failed.
capture_full_screen_to_image_retry_conversion(fs) ==
    IF fs.open # "ok"
    THEN [res |-> "Err", attempts |-> 0, converted |-> 0, dropped |-> 0]
    ELSE [dropped |-> 1] @@ FrameAttemptsUntilConverted(1, fs)

\* Mutant of capture_full_screen_to_image: `for attempt in 1..=2`.
capture_full_screen_to_image_two_attempts(fs) ==
    IF fs.open # "ok"
    THEN [res |-> "Err", attempts |-> 0, converted |-> 0, dropped |-> 0]
    ELSE LET r == FrameAttempts(1, [fs EXCEPT !.frames[3] = "err"]) IN
         IF r.converted = 0
         THEN [res |-> "Err", attempts |-> 2, converted |-> 0, dropped |-> 1]
         ELSE [dropped |-> 1] @@ r

\* capture_full_screen_to_image: open the primary display, drop one frame
\* (`let _ = capturer.frame()`), then `for attempt in 1..=3`.
capture_full_screen_to_image(fs) ==
    IF fs.open # "ok"
    THEN [res |-> "Err", attempts |-> 0, converted |-> 0, dropped |-> 0]
    ELSE [dropped |-> 1] @@ FrameAttempts(1, fs)

Min(a, b) == IF a < b THEN a ELSE b
Max(a, b) == IF a > b THEN a ELSE b

\* The rectangle handed to image.crop_imm, and the Ok of the function.  The
\* `as u32` casts are of values that are not negative for a window rectangle
\* of positive width and height, and leave them as they are.
Cropped(x, y, width, height) ==
    [res |-> "Ok", x |-> x, y |-> y, width |-> width, height |-> height]

\* Mutant of crop_image_to_window: the adjusted width and height are not
\* raised to 100.
crop_image_to_window_no_floor(rect, img_width, img_height) ==
    IF rect.x < 0 \/ rect.y < 0
       \/ rect.x + rect.width > img_width
       \/ rect.y + rect.height > img_height
    THEN Cropped(Max(rect.x, 0), Max(rect.y, 0),
                 Min(rect.width, img_width - Max(rect.x, 0)),
                 Min(rect.height, img_height - Max(rect.y, 0)))
    ELSE Cropped(rect.x, rect.y, rect.width, rect.height)

\* crop_image_to_window: a rectangle that leaves the image is adjusted
\* (safe_x, safe_y, safe_width, safe_height), any other is passed as it is;
\* Ok on both paths.
crop_image_to_window(rect, img_width, img_height) ==
    IF rect.x < 0 \/ rect.y < 0
       \/ rect.x + rect.width > img_width
       \/ rect.y + rect.height > img_height
    THEN LET safe_x == Max(rect.x, 0)
             safe_y == Max(rect.y, 0)
             safe_width ==
                 Max(Min(rect.width, img_width - Max(rect.x, 0)), 100)
             safe_height ==
                 Max(Min(rect.height, img_height - Max(rect.y, 0)), 100)
         IN  Cropped(safe_x, safe_y, safe_width, safe_height)
    ELSE Cropped(rect.x, rect.y, rect.width, rect.height)

CapResult(res, tier, direct, full, attempts, cropped, saves) ==
    [res |-> res, tier |-> tier, direct |-> direct, full |-> full,
     attempts |-> attempts, cropped |-> cropped, saves |-> saves]

\* Mutant of capture_window_direct_tier: an Err of the direct tier is returned
\* to the caller and the whole-display tier is never tried.
capture_window_direct_tier_no_fallback(valid, scen, save_ok) ==
    IF capture_window_direct_windows(valid, ScenarioCalls(scen)).res = "Ok"
    THEN CapResult(IF save_ok THEN "Ok" ELSE "Err", "direct", "Ok", "None", 0, FALSE, 1)
    ELSE CapResult("Err", "direct", "Err", "None", 0, FALSE, 0)

\* Mutant of capture_window_direct_tier: the `return Ok(())` after the save is
\* lost and the whole-display tier runs after a direct capture that succeeded.
capture_window_direct_tier_both_tiers(valid, scen, save_ok) ==
    IF capture_window_direct_windows(valid, ScenarioCalls(scen)).res = "Ok"
    THEN CapResult("Pending", "full", "Ok", "None", 0, FALSE, IF save_ok THEN 1 ELSE 0)
    ELSE CapResult("Pending", "full", "Err", "None", 0, FALSE, 0)

\* Mutant of capture_window_direct_tier: a failed save of the direct image is
\* logged like a failed capture and the whole-display tier is tried.
capture_window_direct_tier_save_fallback(valid, scen, save_ok) ==
    IF capture_window_direct_windows(valid, ScenarioCalls(scen)).res = "Ok"
    THEN IF save_ok
         THEN CapResult("Ok", "direct", "Ok", "None", 0, FALSE, 1)
         ELSE CapResult("Pending", "full", "Ok", "None", 0, FALSE, 1)
    ELSE CapResult("Pending", "full", "Err", "None", 0, FALSE, 0)

\* capture_window, the cfg(windows) block: on Ok(image) save it and return;
\* on Err fall through to the whole-display tier ("Pending").
capture_window_direct_tier(valid, scen, save_ok) ==
    IF capture_window_direct_windows(valid, ScenarioCalls(scen)).res = "Ok"
    THEN CapResult(IF save_ok THEN "Ok" ELSE "Err", "direct", "Ok", "None", 0, FALSE, 1)
    ELSE CapResult("Pending", "full", "Err", "None", 0, FALSE, 0)

\* capture_window after the direct tier failed: capture_full_screen_to_image()?,
\* crop_image_to_window()?, cropped_image.save()?.
capture_window_full_tier(rect, fs, save_ok) ==
    LET full == capture_full_screen_to_image(fs) IN
    IF full.res # "Ok"
    THEN CapResult("Err", "full", "Err", "Err", full.attempts, FALSE, 0)
    ELSE IF crop_image_to_window(rect, 1, 1).res # "Ok"
    THEN CapResult("Err", "full", "Err", "Ok", full.attempts, FALSE, 0)
    ELSE CapResult(IF save_ok THEN "Ok" ELSE "Err", "full", "Err", "Ok",
                   full.attempts, TRUE, 1)

-----------------------------------------------------------------------------
(* cli.rs: run and capture_pages                                           *)

\* The arguments and the result of a function that is checked on its own
\* (SpecNormalize, SpecCrop, SpecFullCapture); the page loop leaves them alone.
NoArgs == [fn |-> "None"]
NoResult == [fn |-> "None"]

Event(op, p, res, tier) == [op |-> op, page |-> p, res |-> res, tier |-> tier]

NoCap == [page |-> 0, valid |-> TRUE, rect |-> NoRect] @@ CapResult("None", "None", "None", "None", 0, FALSE, 0)
NoNav == [page |-> 0, valid |-> TRUE, res |-> "None", focus |-> 0,
          focus_res |-> "None", inj |-> <<>>, calls |-> <<>>]

\* The latest FocusGuard step: where it ran, what the focus call returned
\* (front) and what the step handed to its caller (res).
Focus(step, p, front, res) == [step |-> step, page |-> p, front |-> front, res |-> res]
NoFocus == Focus("None", 0, "None", "None")

\* Mutant of push: the path takes the place of the last entry.
push_replace_last(images, image_path) ==
    IF images = <<>> THEN <<image_path>>
    ELSE SubSeq(images, 1, Len(images) - 1) \o <<image_path>>

\* Mutant of push: the path is put in front.
push_front(images, image_path) == <<image_path>> \o images

\* captured_images.push(image_path)
push(images, image_path) == Append(images, image_path)

\* Mutant of after_capture: an Err of capture_window is not returned; the loop
\* waits for Enter as it does after a failed navigation.
after_capture_pause_on_err(res, p, n) ==
    IF res # "Ok" THEN "manual"
    ELSE IF p < n
         THEN (IF p = 1 THEN "reactivate" ELSE "navigate")
         ELSE "create_pdf"

\* Mutant of after_capture: the loop goes on to the next capture without
\* calling navigate_to_next_page.
after_capture_skip_navigation(res, p, n) ==
    IF res # "Ok" THEN "failed"
    ELSE IF p < n THEN "settle" ELSE "create_pdf"

\* Mutant of after_capture: the `?` is lost and an Err of capture_window is
\* treated like an Ok.
after_capture_ignore_err(res, p, n) ==
    IF p < n
    THEN (IF p = 1 THEN "reactivate" ELSE "navigate")
    ELSE "create_pdf"

\* Mutant of after_capture: `page <= page_count` for `page < page_count`.
after_capture_le(res, p, n) ==
    IF res # "Ok" THEN "failed"
    ELSE IF p <= n
         THEN (IF p = 1 THEN "reactivate" ELSE "navigate")
         ELSE "create_pdf"

\* Mutant of after_capture: the `if page == 1` is lost and the window is
\* activated again before every navigation.
after_capture_reactivate_always(res, p, n) ==
    IF res # "Ok" THEN "failed"
    ELSE IF p < n THEN "reactivate" ELSE "create_pdf"

\* Where capture_pages goes after capture_window returned `res` for `p`:
\* `?` on an Err; `if page < page_count`, `if page == 1`; the end of the for loop.
after_capture(res, p, n) ==
    IF res # "Ok" THEN "failed"
    ELSE IF p < n
         THEN (IF p = 1 THEN "reactivate" ELSE "navigate")
         ELSE "create_pdf"

\* Mutant of after_navigate: after a navigation the loop asks for the window
\* rectangle again before it goes on.
after_navigate_requery(res) == IF res = "Ok" THEN "get_rect" ELSE "manual"

\* Mutant of after_navigate: the Err of navigate_to_next_page is propagated
\* with `?` and ends the run.
after_navigate_propagate(res) == IF res = "Ok" THEN "settle" ELSE "failed"

\* The match on navigate_to_next_page: Ok goes on to the 1500 ms wait, Err to
\* the read_line that waits for Enter.
after_navigate(res) == IF res = "Ok" THEN "settle" ELSE "manual"

Init ==
    /\ pc = "activate"
    /\ page_count \in 1..MaxPages
    /\ title \in Titles
    /\ window_valid = TRUE
    /\ window_rect = NoRect
    /\ page = 0
    /\ captured_images = <<>>
    /\ files = {}
    /\ trace = <<>>
    /\ last_cap = NoCap
    /\ last_nav = NoNav
    /\ last_focus = NoFocus
    /\ ret = "None"
    /\ pdf_pages = -1
    /\ args = NoArgs
    /\ result = NoResult

\* run, step 7: activate_and_bring_to_front(&selected_program).await?
ActivateWindow(Faults) ==
    /\ pc = "activate"
    /\ \E fault \in Faults :
         LET r == activate_and_bring_to_front(window_valid, fault) IN
         /\ trace' = Append(trace, Event("activate", 0, r, "None"))
         /\ last_focus' = Focus("activate", 0,
                                bring_window_to_front_windows(window_valid, fault), r)
         /\ pc' = IF r = "Ok" THEN "get_rect" ELSE "failed"
    /\ UNCHANGED <<args, result, page_count, title, window_valid, window_rect, page,
                   captured_images, files, last_cap, last_nav, ret, pdf_pages>>

\* capture_pages: get_window_rect(window).await?, then the first iteration.
GetWindowRect ==
    /\ pc = "get_rect"
    /\ LET r == get_window_rect(window_valid) IN
       /\ trace' = Append(trace, Event("get_rect", 0, r, "None"))
       /\ IF r = "Ok"
          THEN /\ \E rect \in Rects : window_rect' = rect
               /\ page' = 1
               /\ pc' = "capture"
               /\ ret' = ret
          ELSE /\ pc' = "failed"
               /\ ret' = "Err"
               /\ UNCHANGED <<window_rect, page>>
    /\ UNCHANGED <<args, result, last_focus, page_count, title, window_valid, captured_images, files,
                   last_cap, last_nav, pdf_pages>>

\* capture_pages, once capture_window returned `c` for the current page:
\* `?`, captured_images.push(image_path), and the way on.
CaptureReturns(c, valid) ==
    LET image_path == PageFileName(page)
        next == after_capture(c.res, page, page_count)
    IN  /\ last_cap' = [page |-> page, valid |-> valid, rect |-> window_rect] @@ c
        /\ trace' = Append(trace, Event("capture", page, c.res, c.tier))
        /\ files' = IF c.saves > 0 /\ c.res = "Ok"
                    THEN files \cup {image_path} ELSE files
        /\ captured_images' = IF next = "failed" THEN captured_images
                              ELSE push(captured_images, image_path)
        /\ pc' = next
        /\ ret' = IF next = "failed" THEN "Err"
                  ELSE IF next = "create_pdf" THEN "Ok" ELSE ret

\* capture_pages calls capture_window(window, &window_rect, &image_path):
\* the direct tier.
CaptureDirect ==
    /\ pc = "capture"
    /\ \E scen \in DirectScenarios, save_ok \in BOOLEAN :
         LET c == capture_window_direct_tier(window_valid, scen, save_ok) IN
         IF c.res = "Pending"
         THEN /\ last_cap' = [page |-> page, valid |-> window_valid,
                            rect |-> window_rect] @@ c
              /\ pc' = "capture_full"
              /\ UNCHANGED <<trace, files, captured_images, ret>>
         ELSE CaptureReturns(c, window_valid)
    /\ UNCHANGED <<args, result, last_focus, page_count, title, window_valid, window_rect, page,
                   last_nav, pdf_pages>>

\* capture_window goes on with the whole-display tier and returns.
CaptureFull ==
    /\ pc = "capture_full"
    /\ \E fs \in FullScenarios, save_ok \in BOOLEAN :
         CaptureReturns(capture_window_full_tier(window_rect, fs, save_ok),
                        last_cap.valid)
    /\ UNCHANGED <<args, result, last_focus, page_count, title, window_valid, window_rect, page,
                   last_nav, pdf_pages>>

\* capture_pages, `if page == 1`: activate_and_bring_to_front(window).await?
\* and the 500 ms sleep.
ReactivateWindow(Faults) ==
    /\ pc = "reactivate"
    /\ \E fault \in Faults :
         LET r == activate_and_bring_to_front(window_valid, fault) IN
         /\ trace' = Append(trace, Event("reactivate", page, r, "None"))
         /\ last_focus' = Focus("reactivate", page,
                                bring_window_to_front_windows(window_valid, fault), r)
         /\ pc' = IF r = "Ok" THEN "navigate" ELSE "failed"
         /\ ret' = IF r = "Ok" THEN ret ELSE "Err"
    /\ UNCHANGED <<args, result, page_count, title, window_valid, window_rect, page,
                   captured_images, files, last_cap, last_nav, pdf_pages>>

\* capture_pages, `match crate::keyboard::navigate_to_next_page(window).await`.
NavigateToNextPage(Faults, Focusing) ==
    /\ pc = "navigate"
    /\ \E faults \in [1..4 -> Faults], fault \in Focusing :
         LET n == navigate_to_next_page(window_valid, title, Append(faults, fault)) IN
         /\ last_nav' = [page |-> page, valid |-> window_valid] @@ n
         /\ last_focus' = Focus("navigate", page, n.focus_res, n.res)
         /\ trace' = Append(trace, Event("navigate", page, n.res, "None"))
         /\ pc' = after_navigate(n.res)
    /\ UNCHANGED <<args, result, page_count, title, window_valid, window_rect, page,
                   captured_images, files, last_cap, ret, pdf_pages>>

\* capture_pages, the Err arm: stdin().read_line returns when Enter is pressed.
ManualIntervention ==
    /\ pc = "manual"
    /\ trace' = Append(trace, Event("manual", page, "Ok", "None"))
    /\ pc' = "settle"
    /\ UNCHANGED <<args, result, last_focus, page_count, title, window_valid, window_rect, page,
                   captured_images, files, last_cap, last_nav, ret, pdf_pages>>

\* capture_pages, sleep(1500 ms) and the next iteration of `for page in 1..=page_count`.
Settle ==
    /\ pc = "settle"
    /\ page' = page + 1
    /\ pc' = "capture"
    /\ UNCHANGED <<args, result, last_focus, page_count, title, window_valid, window_rect,
                   captured_images, files, trace, last_cap, last_nav, ret, pdf_pages>>

\* run, step 9: pdf_generator::create_pdf(&captured_images, &output_dir).await?
CreatePdf ==
    /\ pc = "create_pdf"
    /\ \E pdf_ok \in BOOLEAN :
         LET r == IF captured_images = <<>> \/ ~pdf_ok THEN "Err" ELSE "Ok" IN
         /\ trace' = Append(trace, Event("create_pdf", 0, r, "None"))
         /\ pdf_pages' = IF r = "Ok" THEN Len(captured_images) ELSE pdf_pages
         /\ pc' = IF r = "Ok" THEN "cleanup" ELSE "failed"
    /\ UNCHANGED <<args, result, last_focus, page_count, title, window_valid, window_rect, page,
                   captured_images, files, last_cap, last_nav, ret>>

\* str::trim: the line without its leading and trailing white space.
Whitespace == {" ", "\t", "\r", "\n"}
trim(s) ==
    LET kept == {i \in 1..Len(s) : s[i] \notin Whitespace} IN
    IF kept = {} THEN <<>>
    ELSE SubSeq(s, CHOOSE i \in kept : \A j \in kept : i <= j,
                   CHOOSE i \in kept : \A j \in kept : i >= j)

\* The lines read_line may hand to cleanup_temp_files.
Answers ==
    { <<"y", "\n">>, <<"Y", "\r", "\n">>, <<" ", "y", " ", "\n">>, <<"n", "\n">>,
      <<"y", "e", "s", "\n">>, <<"\n">>, <<>> }

\* Mutant of cleanup_temp_files: the files are removed whatever was answered.
cleanup_temp_files_unasked(input, fs, image_paths) ==
    [files |-> fs \ {image_paths[i] : i \in 1..Len(image_paths)},
     answer |-> IF to_lowercase(trim(input)) = <<"y">> THEN "confirmed" ELSE "declined"]

\* cleanup_temp_files: remove_file for each path when the answer trims and
\* lowercases to "y" (a failing remove_file is logged); nothing otherwise.
cleanup_temp_files(input, fs, image_paths) ==
    IF to_lowercase(trim(input)) = <<"y">>
    THEN [files |-> fs \ {image_paths[i] : i \in 1..Len(image_paths)},
          answer |-> "confirmed"]
    ELSE [files |-> fs, answer |-> "declined"]

\* run, step 10: cleanup_temp_files(&captured_images).await?; the last field
\* of its event is the answer that was given.
CleanupTempFiles ==
    /\ pc = "cleanup"
    /\ \E input \in Answers :
         LET c == cleanup_temp_files(input, files, captured_images) IN
         /\ files' = c.files
         /\ trace' = Append(trace, Event("cleanup", 0, "Ok", c.answer))
    /\ pc' = "done"
    /\ UNCHANGED <<args, result, last_focus, page_count, title, window_valid, window_rect, page,
                   captured_images, last_cap, last_nav, ret, pdf_pages>>

\* The target application closes its window; the HWND the run holds is no
\* longer a window.
CloseWindow ==
    /\ window_valid
    /\ pc \notin {"done", "failed"}
    /\ window_valid' = FALSE
    /\ UNCHANGED <<args, result, last_focus, pc, page_count, title, window_rect, page, captured_images,
                   files, trace, last_cap, last_nav, ret, pdf_pages>>

\* The steps of run and capture_pages that call neither a focus function nor
\* an injection.
Steps ==
    \/ GetWindowRect
    \/ CaptureDirect
    \/ CaptureFull
    \/ Settle
    \/ CreatePdf
    \/ CleanupTempFiles
    \/ CloseWindow

\* The program as written: no injection call returns Err, so
\* navigate_to_next_page returns Ok and the Err arm of the match is never taken.
Next ==
    \/ Steps
    \/ ActivateWindow(NoFaults)
    \/ ReactivateWindow(NoFaults)
    \/ NavigateToNextPage(NoFaults, NoFaults)

\* The program with injection calls that may return Err.
NextFault ==
    \/ Steps
    \/ ActivateWindow(NoFaults)
    \/ ReactivateWindow(NoFaults)
    \/ NavigateToNextPage(InjectionFaults, NoFaults)
    \/ ManualIntervention

\* The program with focus calls that may return Err.
NextFocusFault ==
    \/ Steps
    \/ ActivateWindow(FocusFaults)
    \/ ReactivateWindow(FocusFaults)
    \/ NavigateToNextPage(NoFaults, FocusFaults)
    \/ ManualIntervention

Spec == Init /\ [][Next]_vars

SpecFault == Init /\ [][NextFault]_vars

SpecFocusFault == Init /\ [][NextFocusFault]_vars

\* The steps capture_pages takes by itself: every call it awaits returns
\* (the Win32 calls return, capture_full_screen_to_image and
\* try_alternative_navigation are bounded loops, the sleeps are finite).
\* read_line returns only when Enter is pressed, and the window is closed by
\* the target application, so neither is among them.
LoopStep ==
    \/ ActivateWindow(NoFaults)
    \/ GetWindowRect
    \/ CaptureDirect
    \/ CaptureFull
    \/ ReactivateWindow(NoFaults)
    \/ NavigateToNextPage(InjectionFaults, NoFaults)
    \/ Settle

\* Runs of at most MaxLivePages pages.
InitLive == Init /\ page_count <= MaxLivePages

\* SpecFault with the loop's own steps taken whenever they can be.
SpecLive == InitLive /\ [][NextFault]_vars /\ WF_vars(LoopStep)

-----------------------------------------------------------------------------
(* capture.rs: the pixel conversions on their own                          *)

loop_vars == <<pc, page_count, title, window_valid, window_rect, page,
               captured_images, files, trace, last_cap, last_nav, last_focus,
               ret, pdf_pages>>

\* The page loop is not running.
LoopIdle ==
    /\ pc = "idle"
    /\ page_count = 1
    /\ title = <<>>
    /\ window_valid = TRUE
    /\ window_rect = NoRect
    /\ page = 0
    /\ captured_images = <<>>
    /\ files = {}
    /\ trace = <<>>
    /\ last_cap = NoCap
    /\ last_nav = NoNav
    /\ last_focus = NoFocus
    /\ ret = "None"
    /\ pdf_pages = -1

\* A frame of `len` bytes no two neighbours of which are equal, so that a
\* byte that moved is seen.
FrameBytes(len, seed) == [i \in 1..len |-> (seed + 37 * (i - 1)) % 256]

\* Frames up to twice the largest declared size at 4 bytes per pixel.
MaxFrameLen == MaxWidth * MaxHeight * 8

InitNormalize ==
    /\ LoopIdle
    /\ \E len \in 0..MaxFrameLen, seed \in {0, 201},
          width \in 1..MaxWidth, height \in 1..MaxHeight,
          png_ok \in BOOLEAN, bmp_ok \in BOOLEAN :
         args = [fn |-> "frame", frame |-> FrameBytes(len, seed),
                 width |-> width, height |-> height,
                 png_ok |-> png_ok, bmp_ok |-> bmp_ok]
    /\ result = NoResult

\* capture_full_screen_to_image hands the frame to convert_frame_to_image.
ConvertFrameToImage ==
    /\ args.fn = "frame"
    /\ result = NoResult
    /\ result' = [fn |-> "convert_frame_to_image"]
                  @@ convert_frame_to_image(args.frame, args.width, args.height)
    /\ UNCHANGED <<args, loop_vars>>

\* A path as Path::with_extension sees it: the stem and the extension.
FilePath(stem, extension) == [stem |-> stem, extension |-> extension]
NoPath == FilePath("none", "none")
with_extension(path, extension) == [path EXCEPT !.extension = extension]

\* The output_path a caller may pass.
OutputPaths == {FilePath("page_001", "png"), FilePath("page_001", "bmp")}

\* The file a conversion wrote: img.save(output_path) in the convert_*_fixed
\* functions, img.save(&bmp_path) with
\* bmp_path = output_path.with_extension("bmp") in save_as_bmp_fixed.
written_path(output_path, file) ==
    CASE file = "output_path" -> output_path
      [] file = "bmp_path"    -> with_extension(output_path, "bmp")
      [] OTHER                -> NoPath

\* capture_full_screen hands the frame and its output_path to
\* save_frame_as_image_smart.
SaveFrameAsImageSmart ==
    /\ args.fn = "frame"
    /\ result = NoResult
    /\ \E output_path \in OutputPaths :
         LET r == save_frame_as_image_smart(args.frame, args.width, args.height,
                                            args.png_ok, args.bmp_ok)
         IN  result' = [fn |-> "save_frame_as_image_smart",
                        output_path |-> output_path,
                        written |-> written_path(output_path, r.file)] @@ r
    /\ UNCHANGED <<args, loop_vars>>

DetectPixelFormat ==
    /\ args.fn = "frame"
    /\ result = NoResult
    /\ result' = [fn |-> "detect_pixel_format"]
                  @@ detect_pixel_format(Len(args.frame), args.width, args.height)
    /\ UNCHANGED <<args, loop_vars>>

NextNormalize ==
    \/ ConvertFrameToImage
    \/ SaveFrameAsImageSmart
    \/ DetectPixelFormat

SpecNormalize == InitNormalize /\ [][NextNormalize]_vars

-----------------------------------------------------------------------------
(* capture.rs: crop_image_to_window on its own                             *)

Cells(from, to) == {50 * k : k \in from..to}

InitCrop ==
    /\ LoopIdle
    /\ \E x \in Cells(-MaxCells, MaxCells), y \in Cells(-MaxCells, MaxCells),
          width \in Cells(1, MaxCells), height \in Cells(1, MaxCells),
          img_width \in Cells(1, MaxCells), img_height \in Cells(1, MaxCells) :
         args = [fn |-> "crop",
                 window_rect |-> [x |-> x, y |-> y, width |-> width, height |-> height],
                 img_width |-> img_width, img_height |-> img_height]
    /\ result = NoResult

\* capture_window: crop_image_to_window(full_screen_image, window_rect)?
CropImageToWindow ==
    /\ args.fn = "crop"
    /\ result = NoResult
    /\ result' = [fn |-> "crop_image_to_window"]
                  @@ crop_image_to_window(args.window_rect, args.img_width,
                                          args.img_height)
    /\ UNCHANGED <<args, loop_vars>>

NextCrop == CropImageToWindow

SpecCrop == InitCrop /\ [][NextCrop]_vars

-----------------------------------------------------------------------------
(* capture.rs: capture_full_screen_to_image on its own                     *)

\* What the display backend does in one call, with what the dropped first
\* capturer.frame() call returned.
InitFullCapture ==
    /\ LoopIdle
    /\ \E open \in {"ok", "no_display", "no_capturer"},
          first \in {"frame", "empty", "err"},
          frames \in [1..3 -> {"frame", "empty", "err"}],
          size_ok \in BOOLEAN :
         args = [fn |-> "display", open |-> open, first |-> first,
                 frames |-> frames, size_ok |-> size_ok]
    /\ result = NoResult

\* capture_window: capture_full_screen_to_image().await
CaptureFullScreenToImage ==
    /\ args.fn = "display"
    /\ result = NoResult
    /\ result' = [fn |-> "capture_full_screen_to_image"]
                  @@ capture_full_screen_to_image(args)
    /\ UNCHANGED <<args, loop_vars>>

NextFullCapture == CaptureFullScreenToImage

SpecFullCapture == InitFullCapture /\ [][NextFullCapture]_vars

\* capture_window_direct_windows on every combination of what its Win32 calls
\* can return, for a live and a closed window.
InitDirect ==
    /\ LoopIdle
    /\ \E valid \in BOOLEAN, window_dc \in BOOLEAN, mem_dc \in BOOLEAN,
          bitmap \in BOOLEAN, print \in BOOLEAN, bitblt \in BOOLEAN,
          lines \in BOOLEAN :
         args = [fn |-> "direct", valid |-> valid,
                 calls |-> DirectCalls(window_dc, mem_dc, bitmap, print, bitblt, lines)]
    /\ result = NoResult

\* capture_window: capture_window_direct_windows(window, window_rect).await
CaptureWindowDirectWindows ==
    /\ args.fn = "direct"
    /\ result = NoResult
    /\ result' = [fn |-> "capture_window_direct_windows"]
                  @@ capture_window_direct_windows(args.valid, args.calls)
    /\ UNCHANGED <<args, loop_vars>>

NextDirect == CaptureWindowDirectWindows

SpecDirect == InitDirect /\ [][NextDirect]_vars

\* The inverse of LowerChar on the ASCII letters.
UpperChar(c) ==
    IF \E i \in 1..Len(Lower) : Lower[i] = c
    THEN Upper[CHOOSE i \in 1..Len(Lower) : Lower[i] = c]
    ELSE c

\* A word as a window title may spell it.
Cased(word, casing) ==
    CASE casing = "lower"   -> word
      [] casing = "upper"   -> [i \in 1..Len(word) |-> UpperChar(word[i])]
      [] casing = "capital" -> [i \in 1..Len(word) |->
                                   IF i = 1 THEN UpperChar(word[i]) ELSE word[i]]

\* The words the drawn titles are built around: every keyword of for_program
\* and one word that holds none of them.
TitleWords ==
    {KeywordTable[i].keyword : i \in 1..Len(KeywordTable)}
        \cup {<<"n","o","t","e","p","a","d">>}

\* NavigationMethod::for_program on window titles that hold a keyword in
\* lower case, upper case or capitalised, alone or inside a longer title; the
\* WindowInfo is built once and navigate_to_next_page reads its title in the
\* call made for each page.
InitStrategy ==
    /\ LoopIdle
    /\ \E word \in TitleWords, casing \in {"lower", "upper", "capital"},
          before \in {<<>>, <<"M","y"," ">>}, after \in {<<>>, <<" ","-"," ","B">>} :
         args = [fn |-> "title", title |-> before \o Cased(word, casing) \o after]
    /\ result = NoResult

\* navigate_to_next_page: NavigationMethod::for_program(&window.title), once
\* in the call for each page but the last.
ForProgram ==
    /\ args.fn = "title"
    /\ \/ /\ result = NoResult
          /\ result' = [fn |-> "for_program",
                        methods |-> <<for_program(args.title)>>]
       \/ /\ result # NoResult
          /\ Len(result.methods) < MaxPages - 1
          /\ result' = [result EXCEPT
                           !.methods = Append(@, for_program(args.title))]
    /\ UNCHANGED <<args, loop_vars>>

NextStrategy == ForProgram

SpecStrategy == InitStrategy /\ [][NextStrategy]_vars

-----------------------------------------------------------------------------
(* keyboard.rs, window_manager.rs: what the focus calls do to the window   *)

\* A top-level window as user32 keeps it: its show state, its rectangle on
\* the screen, the rectangle it has when restored, the state a minimized
\* window goes back to, and whether it is topmost and in the foreground.
Window(state, rect, normal_rect, restore_to) ==
    [state |-> state, rect |-> rect, normal_rect |-> normal_rect,
     restore_to |-> restore_to, topmost |-> FALSE, foreground |-> FALSE]

\* The rectangle of a maximized window and the rectangle GetWindowRect
\* reports for a minimized one.
ScreenRect == [x |-> 0, y |-> 0, width |-> 200, height |-> 200]
IconicRect == [x |-> -32000, y |-> -32000, width |-> 160, height |-> 28]

IsIconic(w) == w.state = "minimized"

\* ShowWindow(hwnd, SW_RESTORE) gives a minimized window its previous state
\* back and a maximized window its restored size and position;
\* ShowWindow(hwnd, SW_SHOW) shows the window in its current size and position.
ShowWindow(w, cmd) ==
    IF cmd = "SW_RESTORE"
    THEN IF w.state = "minimized" /\ w.restore_to = "maximized"
         THEN [w EXCEPT !.state = "maximized", !.rect = ScreenRect]
         ELSE IF w.state \in {"minimized", "maximized"}
         THEN [w EXCEPT !.state = "normal", !.rect = w.normal_rect]
         ELSE w
    ELSE w

\* SetWindowPos(hwnd, insert_after, x, y, cx, cy, flags): SWP_NOMOVE keeps the
\* position and SWP_NOSIZE the size, whatever x, y, cx, cy are.
SetWindowPos(w, insert_after, x, y, cx, cy, flags) ==
    [w EXCEPT !.topmost = (insert_after = "HWND_TOPMOST"),
              !.rect = [x      |-> IF "SWP_NOMOVE" \in flags THEN w.rect.x ELSE x,
                        y      |-> IF "SWP_NOMOVE" \in flags THEN w.rect.y ELSE y,
                        width  |-> IF "SWP_NOSIZE" \in flags THEN w.rect.width ELSE cx,
                        height |-> IF "SWP_NOSIZE" \in flags THEN w.rect.height ELSE cy]]

\* SetForegroundWindow, with the AttachThreadInput retry when it returned 0:
\* the window is in the foreground or it is not; nothing else changes.
SetForegroundWindow(w, granted) == [w EXCEPT !.foreground = granted]

\* Mutant of ensure_window_focus_windows: ShowWindow(SW_RESTORE) whatever the
\* state of the window.
ensure_window_focus_windows_always_restore(w, granted) ==
    ShowWindow(SetForegroundWindow(w, granted), "SW_RESTORE")

\* ensure_window_focus, the cfg(windows) block: SetForegroundWindow, then
\* SW_RESTORE when IsIconic and SW_SHOW otherwise.
ensure_window_focus_windows(w, granted) ==
    LET f == SetForegroundWindow(w, granted) IN
    IF IsIconic(f) THEN ShowWindow(f, "SW_RESTORE") ELSE ShowWindow(f, "SW_SHOW")

\* bring_window_to_front_windows, what it does to the window: SW_RESTORE when
\* IsIconic and SW_SHOW otherwise, SetWindowPos(HWND_TOPMOST),
\* SetForegroundWindow, SetWindowPos(HWND_NOTOPMOST), both with
\* SWP_NOMOVE | SWP_NOSIZE.
bring_window_to_front_window(w, granted) ==
    LET shown == IF IsIconic(w) THEN ShowWindow(w, "SW_RESTORE")
                 ELSE ShowWindow(w, "SW_SHOW")
        top   == SetWindowPos(shown, "HWND_TOPMOST", 0, 0, 0, 0,
                              {"SWP_NOMOVE", "SWP_NOSIZE"})
        front == SetForegroundWindow(top, granted)
    IN  SetWindowPos(front, "HWND_NOTOPMOST", 0, 0, 0, 0,
                     {"SWP_NOMOVE", "SWP_NOSIZE"})

\* The rectangles a restored window may have.
NormalRects ==
    {[x |-> x, y |-> y, width |-> width, height |-> height] :
        x \in {0, 50}, y \in {0, 50}, width \in {50, 100}, height \in {50, 100}}

\* The target window when a focus call is made: normal, maximized, or
\* minimized from either state.
Windows ==
    {Window("normal", r, r, "normal") : r \in NormalRects}
        \cup {Window("maximized", ScreenRect, r, "normal") : r \in NormalRects}
        \cup {Window("minimized", IconicRect, r, to) :
                  r \in NormalRects, to \in {"normal", "maximized"}}

InitFocusGuard ==
    /\ LoopIdle
    /\ \E w \in Windows : args = [fn |-> "window", window |-> w]
    /\ result = NoResult

\* After the focus calls so far the window is args.window before the first
\* and result.window afterwards.
CurrentWindow == IF result = NoResult THEN args.window ELSE result.window
Invocations == IF result = NoResult THEN 0 ELSE result.invocations

\* capture_pages: activate_and_bring_to_front(window) before the first capture
\* and after the capture of page 1.
BringWindowToFront ==
    /\ args.fn = "window"
    /\ Invocations < MaxPages
    /\ \E granted \in BOOLEAN :
         result' = [fn |-> "focus", guard |-> "bring_window_to_front_windows",
                    before |-> CurrentWindow, invocations |-> Invocations + 1,
                    window |-> bring_window_to_front_window(CurrentWindow, granted)]
    /\ UNCHANGED <<args, loop_vars>>

\* navigate_to_next_page: ensure_window_focus(window).await?
EnsureWindowFocus ==
    /\ args.fn = "window"
    /\ Invocations < MaxPages
    /\ \E granted \in BOOLEAN :
         result' = [fn |-> "focus", guard |-> "ensure_window_focus",
                    before |-> CurrentWindow, invocations |-> Invocations + 1,
                    window |-> ensure_window_focus_windows(CurrentWindow, granted)]
    /\ UNCHANGED <<args, loop_vars>>

NextFocusGuard == BringWindowToFront \/ EnsureWindowFocus

SpecFocusGuard == InitFocusGuard /\ [][NextFocusGuard]_vars

-----------------------------------------------------------------------------
(* window_manager.rs, keyboard.rs: the cfg branches of the focus and       *)
(* geometry functions                                                      *)

\* The targets the cfg attributes tell apart: windows, target_os = "macos",
\* and not(any(windows, target_os = "macos")).
Platforms == {"windows", "macos", "other"}

\* What a function hands back: its Result, the EbCaptureError variant and
\* reason of an Err, and whether it called anything that acts on the window.
Outcome(res, kind, reason, acted) ==
    [res |-> res, kind |-> kind, reason |-> reason, acted |-> acted]

\* activate_and_bring_to_front: the windows block, activate_window_macos (a
\* TODO that returns Ok(())), the CaptureFailure of the third block.
activate_and_bring_to_front_cfg(platform, valid, fault) ==
    CASE platform = "windows" ->
           Outcome(activate_and_bring_to_front(valid, fault), "None", "None", TRUE)
      [] platform = "macos" -> Outcome("Ok", "None", "None", FALSE)
      [] platform = "other" ->
           Outcome("Err", "CaptureFailure", "unsupported platform", FALSE)

\* get_window_rect: get_window_rect_windows, and a CaptureFailure in the
\* other two blocks.
get_window_rect_cfg(platform, valid) ==
    CASE platform = "windows" ->
           IF get_window_rect(valid) = "Ok"
           THEN Outcome("Ok", "None", "None", TRUE)
           ELSE Outcome("Err", "CaptureFailure", "get window rect failed", TRUE)
      [] platform = "macos" ->
           Outcome("Err", "CaptureFailure", "macOS is not supported yet", FALSE)
      [] platform = "other" ->
           Outcome("Err", "CaptureFailure", "unsupported platform", FALSE)

\* ensure_window_focus: its only block is cfg(windows); on every target the
\* function sleeps 300 ms and returns Ok(()).
ensure_window_focus_cfg(platform, valid, fault) ==
    IF platform = "windows"
    THEN Outcome(ensure_window_focus(valid, fault), "None", "None", TRUE)
    ELSE Outcome("Ok", "None", "None", FALSE)

\* The three functions on each target, for a live and a closed window of each
\* title, with and without a failing focus call.
InitPlatform ==
    /\ LoopIdle
    /\ \E platform \in Platforms, valid \in BOOLEAN, fault \in FocusFaults,
          program_name \in Titles,
          op \in {"activate_and_bring_to_front", "get_window_rect",
                  "ensure_window_focus"} :
         args = [fn |-> "platform", op |-> op, platform |-> platform,
                 valid |-> valid, fault |-> fault, title |-> program_name]
    /\ result = NoResult

\* run and capture_pages: activate_and_bring_to_front(window).await?
ActivateAndBringToFront ==
    /\ args.fn = "platform" /\ args.op = "activate_and_bring_to_front"
    /\ result = NoResult
    /\ result' = [fn |-> args.op]
                  @@ activate_and_bring_to_front_cfg(args.platform, args.valid, args.fault)
    /\ UNCHANGED <<args, loop_vars>>

\* capture_pages: get_window_rect(window).await?
GetWindowRectOnPlatform ==
    /\ args.fn = "platform" /\ args.op = "get_window_rect"
    /\ result = NoResult
    /\ result' = [fn |-> args.op] @@ get_window_rect_cfg(args.platform, args.valid)
    /\ UNCHANGED <<args, loop_vars>>

\* navigate_to_next_page: ensure_window_focus(window).await?
EnsureWindowFocusOnPlatform ==
    /\ args.fn = "platform" /\ args.op = "ensure_window_focus"
    /\ result = NoResult
    /\ result' = [fn |-> args.op]
                  @@ ensure_window_focus_cfg(args.platform, args.valid, args.fault)
    /\ UNCHANGED <<args, loop_vars>>

NextPlatform ==
    \/ ActivateAndBringToFront
    \/ GetWindowRectOnPlatform
    \/ EnsureWindowFocusOnPlatform

SpecPlatform == InitPlatform /\ [][NextPlatform]_vars

-----------------------------------------------------------------------------
(* Properties                                                              *)

EventsOf(op) == SelectSeq(trace, LAMBDA e : e.op = op)
PagesOf(events) == [i \in 1..Len(events) |-> events[i].page]
UpTo(n) == [i \in 1..n |-> i]
NavFailed == \E i \in 1..Len(trace) : trace[i].op = "navigate" /\ trace[i].res = "Err"
CountInj(inj, method) == Cardinality({k \in 1..Len(inj) : inj[k].method = method})

\* C1: when capture_pages returns Ok (every page capture succeeded), the
\* returned list is exactly page_001.png .. page_N.png in ascending order and
\* capture_window was called for the pages 1, 2, .., N in that order, each
\* once, whatever the navigation steps returned.
C1_PathsInPageOrder ==
    ret = "Ok" =>
        /\ captured_images = [i \in 1..page_count |-> <<"page_", 0, 0, i, ".png">>]
        /\ PagesOf(EventsOf("capture")) = UpTo(page_count)

C1_Witness == ret = "Ok" /\ page_count = 3 /\ NavFailed

\* C2: a failed capture_window call is the last thing the run does: it is the
\* last event, capture_pages has returned Err, the failing page is not in the
\* list, create_pdf is never called, and a document, if one exists, has
\* page_count pages.
C2_CaptureFailureAborts ==
    /\ \A i \in 1..Len(trace) :
         (trace[i].op = "capture" /\ trace[i].res = "Err") =>
             /\ i = Len(trace)
             /\ pc = "failed"
             /\ ret = "Err"
             /\ Len(captured_images) = trace[i].page - 1
             /\ pdf_pages = -1
    /\ pdf_pages # -1 => pdf_pages = page_count

C2_Witness ==
    /\ page_count = 3
    /\ Len(trace) > 0
    /\ trace[Len(trace)] \in {Event("capture", 2, "Err", t) : t \in {"direct", "full"}}

\* C3: after navigate_to_next_page returned Err for page i the run is not
\* aborted: it waits for Enter once, and what follows is the capture of page
\* i+1; page i is captured once only.
C3_NavigationFailureRecovered ==
    /\ \A i \in 1..Len(trace) :
         (trace[i].op = "navigate" /\ trace[i].res = "Err") =>
             /\ i = Len(trace) => pc = "manual"
             /\ i < Len(trace) => trace[i + 1] = Event("manual", trace[i].page, "Ok", "None")
             /\ i + 1 < Len(trace) =>
                    /\ trace[i + 2].op = "capture"
                    /\ trace[i + 2].page = trace[i].page + 1
             /\ Cardinality({j \in 1..Len(trace) :
                    trace[j].op = "manual" /\ trace[j].page = trace[i].page}) <= 1
             /\ Cardinality({j \in 1..Len(trace) :
                    trace[j].op = "capture" /\ trace[j].page = trace[i].page}) = 1
    /\ \A j \in 1..Len(trace) :
         trace[j].op = "manual" =>
             j > 1 /\ trace[j - 1] = Event("navigate", trace[j].page, "Err", "None")
    /\ pc = "failed" => trace[Len(trace)].op \notin {"navigate", "manual"}

C3_Witness ==
    /\ ret = "Ok"
    /\ Len(captured_images) = page_count
    /\ \E i \in 1..Len(trace) : trace[i] = Event("manual", 2, "Ok", "None")

\* C4: navigate_to_next_page is called once after the capture of each page
\* 1..N-1, in that order, and never for page N: every call is for a page below
\* page_count and follows that page's successful capture, and a run whose
\* captures all succeeded has made exactly the calls for 1, .., N-1.
C4_NavigationCalls ==
    /\ \A i \in 1..Len(trace) :
         trace[i].op = "navigate" =>
             /\ trace[i].page < page_count
             /\ \E j \in 1..(i - 1) :
                  /\ trace[j].op = "capture"
                  /\ trace[j].res = "Ok"
                  /\ trace[j].page = trace[i].page
                  /\ \A k \in (j + 1)..(i - 1) : trace[k].op = "reactivate"
    /\ PagesOf(EventsOf("navigate")) \in {UpTo(page - 1), UpTo(page)}
    /\ ret = "Ok" => PagesOf(EventsOf("navigate")) = UpTo(page_count - 1)

C4_Witness == ret = "Ok" /\ page_count = 3 /\ Len(EventsOf("navigate")) = 2

\* C5: after a failed primary injection the alternatives are injected in the
\* order RightArrow, PageDown, Space, each at most once; each one but the last
\* injected has failed, and a failed one that is not Space is followed by the
\* next.
C5_AlternativesInOrder ==
    LET inj == last_nav.inj
        alts == Tail(inj)
        order == <<"RightArrow", "PageDown", "Space">>
    IN  (Len(inj) >= 1 /\ inj[1].res = "Err") =>
            /\ Len(alts) \in 1..3
            /\ \A k \in 1..Len(alts) :
                 /\ alts[k].method = order[k]
                 /\ alts[k].stage = "alt"
                 /\ k < Len(alts) => alts[k].res = "Err"
                 /\ (alts[k].res = "Err" /\ k < 3) => Len(alts) > k

C5_Witness ==
    /\ Len(last_nav.inj) = 3
    /\ last_nav.inj[1].res = "Err"
    /\ last_nav.inj[2].res = "Err"
    /\ last_nav.inj[3] = Injection("PageDown", "alt", "Ok")

\* C6: navigate_to_next_page returns Err exactly when the primary injection
\* and all three alternatives returned Err; with any injection Ok it returns Ok.
C6_FailureOnlyWhenAllFail ==
    LET inj == last_nav.inj IN
    last_nav.page > 0 =>
        /\ last_nav.res = "Err" <=>
               (Len(inj) = 4 /\ \A k \in 1..4 : inj[k].res = "Err")
        /\ (\E k \in 1..Len(inj) : inj[k].res = "Ok") => last_nav.res = "Ok"

C6_Witness == last_nav.page > 0 /\ last_nav.res = "Err"

C8_PrimarySuccessIsOnlyInjection ==
    (last_nav.page > 0 /\ last_nav.inj[1].res = "Ok") =>
        /\ last_nav.res = "Ok"
        /\ Len(last_nav.inj) = 1
        /\ last_nav.inj[1].stage = "primary"

C8_Witness ==
    /\ last_nav.page = 2
    /\ last_nav.inj = <<Injection("Space", "primary", "Ok")>>

\* C9: a failed direct capture never fails a page by itself: the whole display
\* is captured and cropped, and when that and the save succeed the page is
\* persisted (its file exists until cleanup_temp_files may remove it); a run
\* in which every page went that way ends with page_count images.
C9_FallbackToFullDisplay ==
    /\ (last_cap.page > 0 /\ last_cap.direct = "Err" /\ last_cap.res # "Pending") =>
           /\ last_cap.tier = "full"
           /\ last_cap.full \in {"Ok", "Err"}
           /\ last_cap.full = "Ok" => (last_cap.cropped /\ last_cap.saves = 1)
           /\ last_cap.res = "Ok" => last_cap.full = "Ok"
           /\ (last_cap.res = "Ok" /\ pc # "done") =>
                  PageFileName(last_cap.page) \in files
    /\ \A i \in 1..Len(trace) :
         (trace[i].op = "capture" /\ trace[i].tier = "direct" /\ trace[i].res = "Err") =>
             (last_cap.direct = "Ok" /\ last_cap.saves = 1)
    /\ (pc = "create_pdf"
        /\ \A i \in 1..Len(trace) : trace[i].op = "capture" => trace[i].tier = "full") =>
           /\ Len(captured_images) = page_count
           /\ files = {PageFileName(i) : i \in 1..page_count}

C9_Witness ==
    /\ pc = "create_pdf"
    /\ page_count = 3
    /\ Cardinality(files) = 3
    /\ \A i \in 1..Len(trace) : trace[i].op = "capture" => trace[i].tier = "full"

\* C10: once the window handle is invalid, every capture_window and
\* navigate_to_next_page call for it returns Err: no page is persisted and no
\* injection is reported Ok.
C10_InvalidWindowFails ==
    /\ (last_cap.page > 0 /\ ~last_cap.valid /\ last_cap.res # "Pending") =>
           last_cap.res = "Err"
    /\ (last_nav.page > 0 /\ ~last_nav.valid) =>
           /\ last_nav.res = "Err"
           /\ \A k \in 1..Len(last_nav.inj) : last_nav.inj[k].res = "Err"

-----------------------------------------------------------------------------
(* Properties of the pixel conversions (SpecNormalize)                     *)

\* The two functions that turn a raw frame into an image: the one
\* capture_window's whole-display tier uses and the one capture_full_screen uses.
Normalizers == {"convert_frame_to_image", "save_frame_as_image_smart"}
Normalized == result.fn \in Normalizers
FrameLen == Len(args.frame)

\* Pixel p (from 0) of a 4-channel image is the bytes (r, g, b, a).
PixelIs(image, p, r, g, b, a) ==
    /\ image.data[4 * p + 1] = r
    /\ image.data[4 * p + 2] = g
    /\ image.data[4 * p + 3] = b
    /\ image.data[4 * p + 4] = a

\* C11: a frame of exactly width*height*4 bytes becomes a width x height RGBA
\* image whose pixel p is (frame[4p+2], frame[4p+1], frame[4p+0], frame[4p+3]),
\* in convert_frame_to_image and (when the PNG is written) in
\* save_frame_as_image_smart.
C11_FourByteFrameSwapped ==
    (Normalized /\ FrameLen = args.width * args.height * 4
     /\ (result.fn = "save_frame_as_image_smart" => args.png_ok)) =>
        /\ result.res = "Ok"
        /\ result.image.width = args.width
        /\ result.image.height = args.height
        /\ result.image.channels = 4
        /\ Len(result.image.data) = FrameLen
        /\ \A p \in 0..(args.width * args.height - 1) :
             PixelIs(result.image, p, args.frame[4 * p + 3], args.frame[4 * p + 2],
                     args.frame[4 * p + 1], args.frame[4 * p + 4])

C11_Witness ==
    /\ result.fn = "convert_frame_to_image"
    /\ args.width = 2 /\ args.height = 3 /\ FrameLen = 24
    /\ result.res = "Ok"

\* C12 as stated: a frame of exactly width*height*3 bytes is converted: the
\* result is Ok, a width x height image whose pixel p is
\* (frame[3p+2], frame[3p+1], frame[3p+0], 255).
C12_ThreeByteFrameOpaque ==
    (Normalized /\ FrameLen = args.width * args.height * 3
     /\ (result.fn = "save_frame_as_image_smart" => args.png_ok)) =>
        /\ result.res = "Ok"
        /\ result.image.width = args.width
        /\ result.image.height = args.height
        /\ \A p \in 0..(args.width * args.height - 1) :
             PixelIs(result.image, p, args.frame[3 * p + 3], args.frame[3 * p + 2],
                     args.frame[3 * p + 1], 255)

\* The heights other than the declared one, up to twice it, at which the frame
\* is exactly width*h*4 bytes.
RecoveredHeights ==
    {h \in 1..(2 * args.height) : h # args.height /\ FrameLen = args.width * h * 4}

\* C13 as stated: a frame of exactly width*h*4 bytes, for a height h other
\* than the declared one and in 1..2*height, is converted into a width x h
\* image.
C13_ResolutionRecovered ==
    (Normalized /\ RecoveredHeights # {}
     /\ (result.fn = "save_frame_as_image_smart" => args.png_ok)) =>
        /\ result.res = "Ok"
        /\ result.image.width = args.width
        /\ result.image.height \in RecoveredHeights

\* The frame length fits no layout: not the declared size at 4 or 3 bytes per
\* pixel, and no height in 1..2*height at 4 or 3 bytes per pixel.
NoLayoutFits ==
    \A h \in 1..(2 * args.height), bytes \in {3, 4} :
        FrameLen # args.width * h * bytes

\* C14 as stated: a frame whose length fits no layout is refused: the result
\* is Err and no image is built or written.
C14_UnmatchedFrameRefused ==
    (Normalized /\ NoLayoutFits) =>
        /\ result.res = "Err"
        /\ result.image = NoImage
        /\ result.file = "none"

\* The heights other than the declared one, up to twice it, at which the frame
\* is exactly width*h*3 bytes, for a frame that is width*h*4 bytes at no
\* height in that range.
RecoveredHeights3 ==
    {h \in 1..(2 * args.height) :
        /\ h # args.height
        /\ FrameLen = args.width * h * 3
        /\ \A h4 \in 1..(2 * args.height) : FrameLen # args.width * h4 * 4}

\* C25 as stated: a frame of exactly width*h*3 bytes, for a height h other
\* than the declared one and in 1..2*height, that fits no 4-byte layout, is
\* converted into a width x h RGBA image whose every pixel has alpha 255.
C25_ThreeByteResolutionRecovered ==
    (Normalized /\ RecoveredHeights3 # {}
     /\ (result.fn = "save_frame_as_image_smart" => (args.png_ok /\ args.bmp_ok))) =>
        /\ result.res = "Ok"
        /\ result.image.width = args.width
        /\ result.image.height \in RecoveredHeights3
        /\ result.image.channels = 4
        /\ \A p \in 0..(result.image.width * result.image.height - 1) :
             result.image.data[4 * p + 4] = 255

\* C36 as stated: whenever save_frame_as_image_smart returns Ok, for a frame of
\* any length, the image file was written at the output_path it was given.
C36_SuccessWritesOutputPath ==
    (result.fn = "save_frame_as_image_smart" /\ result.res = "Ok") =>
        result.written = result.output_path

-----------------------------------------------------------------------------
(* Properties of crop_image_to_window (SpecCrop)                           *)

CropDone == result.fn = "crop_image_to_window"

\* The window rectangle has no pixel in common with the image.
EntirelyOutside ==
    LET r == args.window_rect IN
    \/ r.x >= args.img_width
    \/ r.y >= args.img_height
    \/ r.x + r.width <= 0
    \/ r.y + r.height <= 0

\* C15: for a window rectangle entirely outside the image,
\* crop_image_to_window returns Ok and the rectangle it hands to crop_imm has
\* width >= 100 and height >= 100 (so neither is zero or negative).
C15_OutsideRectFloored ==
    (CropDone /\ EntirelyOutside) =>
        /\ result.res = "Ok"
        /\ result.width >= 100
        /\ result.height >= 100

C15_Witness ==
    /\ CropDone
    /\ args.window_rect.x = 200 /\ args.img_width = 100
    /\ args.window_rect.height = 50
    /\ result.width = 100 /\ result.height = 100

\* C16 as stated: the rectangle handed to crop_imm lies within the image:
\* x >= 0, y >= 0, x + width <= image width, y + height <= image height.
C16_CropWithinImage ==
    CropDone =>
        /\ result.x >= 0
        /\ result.y >= 0
        /\ result.x + result.width <= args.img_width
        /\ result.y + result.height <= args.img_height

-----------------------------------------------------------------------------
(* Properties of the page loop, continued                                  *)

Reactivations == {i \in 1..Len(trace) : trace[i].op = "reactivate"}

\* C17: the activation of the window that capture_pages adds for the first
\* page happens only for page 1 of a run of two or more pages, right after the
\* successful capture of page 1 and right before the navigation from page 1;
\* at most once in a run, exactly once when the navigation from page 1 took
\* place, never before the navigation from a later page and never when
\* page_count is 1.
C17_FirstPageRefocusOnce ==
    /\ \A i \in Reactivations :
         /\ trace[i].page = 1
         /\ page_count >= 2
         /\ i > 1 /\ trace[i - 1].op = "capture"
         /\ trace[i - 1].page = 1 /\ trace[i - 1].res = "Ok"
         /\ i < Len(trace) => (trace[i + 1].op = "navigate" /\ trace[i + 1].page = 1)
    /\ Cardinality(Reactivations) <= 1
    /\ \A j \in 1..Len(trace) :
         trace[j].op = "navigate" =>
             IF trace[j].page = 1
             THEN j - 1 \in Reactivations
             ELSE trace[j - 1].op = "capture"
    /\ (ret = "Ok" /\ page_count >= 2) => Cardinality(Reactivations) = 1
    /\ page_count = 1 => Reactivations = {}

C17_Witness ==
    /\ ret = "Ok"
    /\ page_count = 3
    /\ Cardinality(Reactivations) = 1
    /\ Len(EventsOf("navigate")) = 2

\* C18: an Err of a focus call never ends the run by itself.  In
\* activate_and_bring_to_front it is dropped and the step returns Ok; in
\* navigate_to_next_page it is returned as the navigation's Err before any
\* injection and capture_pages answers it with the wait for Enter.  A run that
\* failed did not fail at an activation, a navigation or that wait.
C18_FocusFailureNotFatal ==
    /\ last_focus.front = "Err" =>
          IF last_focus.step = "navigate"
          THEN /\ last_focus.res = "Err"
               /\ last_nav.res = "Err" /\ last_nav.inj = <<>>
               /\ trace[Len(trace)].op = "navigate" => pc = "manual"
               /\ trace[Len(trace)].op = "manual" => pc # "failed"
          ELSE /\ last_focus.res = "Ok"
               /\ trace[Len(trace)].op \in {"activate", "reactivate"} =>
                      pc \in {"get_rect", "navigate"}
    /\ \A i \in 1..Len(trace) :
         /\ trace[i].op \in {"activate", "reactivate"} => trace[i].res = "Ok"
         /\ (trace[i].op = "navigate" /\ trace[i].res = "Err" /\ i < Len(trace)) =>
                trace[i + 1].op = "manual"
    /\ pc = "failed" =>
          trace[Len(trace)].op \notin {"activate", "reactivate", "navigate", "manual"}

C18_Witness ==
    /\ pc = "create_pdf"
    /\ ret = "Ok"
    /\ page_count = 3
    /\ last_focus = Focus("navigate", 2, "Err", "Err")
    /\ \E i \in 1..Len(trace) : trace[i] = Event("navigate", 1, "Err", "None")

-----------------------------------------------------------------------------
(* Properties of capture_full_screen_to_image (SpecFullCapture)            *)

FullCaptureDone == result.fn = "capture_full_screen_to_image"
Opened == args.open = "ok"
NonEmptyAttempts == {k \in 1..3 : args.frames[k] = "frame"}
FirstNonEmpty == CHOOSE k \in NonEmptyAttempts : \A j \in NonEmptyAttempts : k <= j

C20_ThreeAttemptsThenFailure ==
    FullCaptureDone =>
        /\ (Opened /\ NonEmptyAttempts = {}) =>
               /\ result.res = "Err"
               /\ result.attempts = 3
               /\ result.dropped + result.attempts = 4
               /\ result.converted = 0
        /\ result.attempts <= 3
        /\ result.res = "Ok" =>
               /\ result.converted \in 1..3
               /\ args.frames[result.converted] = "frame"

C20_Witness ==
    /\ FullCaptureDone
    /\ args.frames = <<"empty", "err", "empty">>
    /\ args.first = "frame"
    /\ result.res = "Err"
    /\ result.attempts = 3

-----------------------------------------------------------------------------
(* Properties of capture_window in the page loop                           *)

CaptureReturned == last_cap.page > 0 /\ last_cap.res # "Pending"
CapturesOk == {i \in 1..Len(trace) : trace[i].op = "capture" /\ trace[i].res = "Ok"}

\* C21: when capture_window_direct_windows returned Ok, capture_window saves
\* that image and returns: the whole-display tier is not entered (no
\* capture_full_screen_to_image call, no attempt, no crop), one save is made,
\* and the page is persisted exactly when that save succeeds; until
\* cleanup_temp_files the files are one per page that was captured.
C21_DirectSuccessOneTier ==
    /\ (last_cap.page > 0 /\ last_cap.direct = "Ok") =>
           /\ last_cap.res \in {"Ok", "Err"}
           /\ last_cap.tier = "direct"
           /\ last_cap.full = "None"
           /\ last_cap.attempts = 0
           /\ ~last_cap.cropped
           /\ last_cap.saves = 1
           /\ (last_cap.res = "Ok" /\ pc # "done") =>
                  PageFileName(last_cap.page) \in files
    /\ pc = "capture_full" => last_cap.direct = "Err"
    /\ pc # "done" => Cardinality(files) = Cardinality(CapturesOk)

C21_Witness ==
    /\ pc = "create_pdf"
    /\ page_count = 3
    /\ last_cap.direct = "Ok" /\ last_cap.res = "Ok"
    /\ Cardinality(files) = 3
    /\ \A i \in 1..Len(trace) : trace[i].op = "capture" => trace[i].tier = "direct"

\* C22: a failed save is returned as the Err of capture_window and ends the
\* run; exactly one save was tried.  After a direct capture that succeeded
\* the whole-display tier is not entered, and after the crop of a
\* whole-display image no second save is made.
C22_SaveFailureNotRetried ==
    /\ (CaptureReturned /\ last_cap.saves > 0 /\ last_cap.res = "Err") =>
           /\ last_cap.saves = 1
           /\ last_cap.direct = "Ok" =>
                  (last_cap.tier = "direct" /\ last_cap.full = "None"
                   /\ last_cap.attempts = 0)
           /\ last_cap.direct = "Err" => (last_cap.full = "Ok" /\ last_cap.cropped)
           /\ pc = "failed"
           /\ ret = "Err"
           /\ trace[Len(trace)] = Event("capture", last_cap.page, "Err", last_cap.tier)
           /\ PageFileName(last_cap.page) \notin files
    /\ pc = "capture_full" => last_cap.saves = 0
    /\ last_cap.saves <= 1

C22_Witness ==
    /\ CaptureReturned
    /\ last_cap.page = 2
    /\ last_cap.direct = "Ok" /\ last_cap.saves = 1 /\ last_cap.res = "Err"
    /\ pc = "failed"

-----------------------------------------------------------------------------
(* Focus before input (SpecFault, SpecFocusFault)                          *)

\* C26: in every navigate_to_next_page call the first call made is
\* ensure_window_focus, it is made once, every injection (primary or
\* alternative) comes after it, and there is one injection call per recorded
\* injection; when ensure_window_focus did not return Ok nothing is injected.
C26_FocusBeforeInjection ==
    last_nav.page > 0 =>
        LET calls == last_nav.calls IN
        /\ Len(calls) = 1 + Len(last_nav.inj)
        /\ calls[1] = "ensure_window_focus"
        /\ \A k \in 2..Len(calls) : calls[k] = "navigate_with_retry"
        /\ last_nav.focus_res # "Ok" => last_nav.inj = <<>>
        /\ last_nav.focus_res = "Ok" => Len(last_nav.inj) >= 1

\* A call in which the primary and an alternative were injected after the
\* focus call.
C26_Witness ==
    /\ last_nav.page > 0
    /\ last_nav.calls[1] = "ensure_window_focus"
    /\ Len(last_nav.inj) >= 2
    /\ last_nav.inj[1].stage = "primary"
    /\ last_nav.inj[2].stage = "alt"

-----------------------------------------------------------------------------
(* The default navigation method (SpecStrategy)                            *)

StrategyChosen == result.fn = "for_program"

\* The title holds none of the keywords, whatever the case of its letters.
Unmatched(t) ==
    \A i \in 1..Len(KeywordTable) : ~contains(to_lowercase(t), KeywordTable[i].keyword)

\* The method of the first row of the table whose keyword the lower-cased
\* title holds.
FirstMatch(t) ==
    LET rows == {i \in 1..Len(KeywordTable) :
                    contains(to_lowercase(t), KeywordTable[i].keyword)}
    IN  KeywordTable[CHOOSE i \in rows : \A j \in rows : i <= j].method

\* C27: the method selected for a title is the same whatever the case of the
\* title's letters (the title, its lower-case and its upper-case spelling
\* select the same method, that of the first keyword it holds), a title that
\* holds no keyword selects RightArrow, and the calls made for the pages of one
\* run all select the same method.
C27_StrategyCaseInsensitiveAndStable ==
    StrategyChosen =>
        LET t == args.title
            m == result.methods[1]
        IN /\ m = for_program(to_lowercase(t))
           /\ m = for_program([i \in 1..Len(t) |-> UpperChar(t[i])])
           /\ Unmatched(t) => m = "RightArrow"
           /\ ~Unmatched(t) => m = FirstMatch(t)
           /\ \A k \in 1..Len(result.methods) : result.methods[k] = m

\* An upper-case YES24 inside a longer title selected Space for two pages.
C27_Witness ==
    /\ StrategyChosen
    /\ contains(args.title, <<"Y","E","S","2","4">>)
    /\ Len(args.title) > 5
    /\ result.methods = <<"Space", "Space">>

-----------------------------------------------------------------------------
(* The focus calls and the window's geometry (SpecFocusGuard)              *)

FocusGuardRan == result.fn = "focus"

\* C28: a focus call (ensure_window_focus or bring_window_to_front_windows)
\* made on a window that is not minimized leaves its show state and its
\* rectangle as they were, so a window that was not minimized before the first
\* call still has its first rectangle after every call; the rectangle changes
\* only when the window was minimized, and then to the restored one.
C28_FocusKeepsGeometry ==
    FocusGuardRan =>
        /\ ~IsIconic(result.before) =>
               /\ result.window.rect = result.before.rect
               /\ result.window.state = result.before.state
        /\ ~IsIconic(args.window) =>
               /\ result.window.rect = args.window.rect
               /\ result.window.state = args.window.state
        /\ result.window.rect # result.before.rect =>
               /\ IsIconic(result.before)
               /\ ~IsIconic(result.window)
        /\ ~result.window.topmost

\* A maximized window after a focus call of each kind.
C28_Witness ==
    /\ FocusGuardRan
    /\ args.window.state = "maximized"
    /\ result.invocations >= 2
    /\ result.guard = "ensure_window_focus"
    /\ result.window.rect = ScreenRect

-----------------------------------------------------------------------------
(* The cached window rectangle and the order of the loop (Spec)            *)

\* The positions of the trace where `op` was called.
CallsOf(tr, op) == {i \in 1..Len(tr) : tr[i].op = op}

\* C29: get_window_rect is called at most once in a run, and before every
\* capture; once it has returned the rectangle never changes, and every
\* capture_window call, for every page, is handed that rectangle.
C29_RegionQueriedOnce ==
    [][ /\ Cardinality(CallsOf(trace', "get_rect")) <= 1
        /\ \A c \in CallsOf(trace', "capture") :
              \E g \in CallsOf(trace', "get_rect") : g < c /\ trace'[g].res = "Ok"
        /\ pc # "get_rect" => window_rect' = window_rect
        /\ last_cap'.page > 0 =>
              /\ CallsOf(trace', "get_rect") # {}
              /\ last_cap'.rect = window_rect'
              /\ last_cap'.rect \in Rects
        /\ (last_cap.page > 0 /\ last_cap'.page > 0) => last_cap'.rect = last_cap.rect
      ]_vars

\* The last page of a three-page run was captured with the rectangle of the
\* one query.
C29_Witness ==
    /\ last_cap.page = 3
    /\ last_cap.res = "Ok"
    /\ Cardinality(CallsOf(trace, "get_rect")) = 1
    /\ Cardinality(CallsOf(trace, "capture")) = 3
    /\ last_cap.rect = window_rect
    /\ window_rect \in Rects

\* The page advance for page p has been issued: navigate_to_next_page returned
\* Ok for it, or it returned Err and Enter was pressed.
AdvanceIssued(e, p) ==
    \/ e = Event("navigate", p, "Ok", "None")
    \/ e = Event("manual", p, "Ok", "None")

\* C30: the loop does one thing at a time and in order.  A capture_window
\* call has started and not returned exactly when the loop is inside it, and
\* then no navigation for that page has been made; the capture of page 1 comes
\* right after the rectangle query and the capture of page p + 1 right after
\* the advance for page p was issued (navigate_to_next_page returned Ok, or
\* Enter was pressed after its Err); no page is captured twice; and a
\* navigation for page p is made only after the capture of page p returned.
C30_PagesStrictlySequential ==
    /\ (last_cap.res = "Pending") <=> (pc = "capture_full")
    /\ pc = "capture_full" =>
          /\ last_cap.page = page
          /\ \A i \in 1..Len(trace) :
                trace[i].op \in {"capture", "navigate", "manual"} => trace[i].page < page
    /\ pc \in {"capture", "capture_full"} =>
          /\ Len(trace) > 0
          /\ IF page = 1 THEN trace[Len(trace)].op = "get_rect"
             ELSE AdvanceIssued(trace[Len(trace)], page - 1)
    /\ \A i \in CallsOf(trace, "capture") :
          /\ i > 1
          /\ IF trace[i].page = 1 THEN trace[i - 1].op = "get_rect"
             ELSE AdvanceIssued(trace[i - 1], trace[i].page - 1)
          /\ \A j \in CallsOf(trace, "capture") : trace[j].page = trace[i].page => j = i
    /\ \A i \in CallsOf(trace, "navigate") :
          \E c \in CallsOf(trace, "capture") :
              c < i /\ trace[c] \in {Event("capture", trace[i].page, "Ok", t) :
                                        t \in {"direct", "full"}}

\* Page 3 is being captured after Enter was pressed for page 2.
C30_Witness ==
    /\ pc = "capture_full"
    /\ page = 3
    /\ trace[Len(trace)] = Event("manual", 2, "Ok", "None")
    /\ \E i \in 1..Len(trace) : trace[i] = Event("navigate", 1, "Ok", "None")

\* The list page_001.png .. page_k.png.
PathsUpTo(k) == [i \in 1..k |-> PageFileName(i)]

\* C31: after every step captured_images is page_001.png .. page_k.png, k
\* being the number of capture_window calls that returned Ok so far, and a
\* step either leaves the list as it is or appends the path of the next page
\* at its end; nothing is removed, replaced or moved.
C31_PathListAppendOnly ==
    [][ /\ captured_images' =
              PathsUpTo(Cardinality({i \in CallsOf(trace', "capture") :
                                        trace'[i].res = "Ok"}))
        /\ \/ captured_images' = captured_images
           \/ captured_images' =
                  Append(captured_images, PageFileName(Len(captured_images) + 1))
      ]_vars

\* Three pages are in the list and the third was captured after a failed
\* navigation.
C31_Witness ==
    /\ captured_images = PathsUpTo(3)
    /\ NavFailed
    /\ last_cap.page = 3
    /\ last_cap.res = "Ok"

\* capture_pages has returned: Ok with every page, or Err.
Completed == pc \in {"create_pdf", "cleanup", "done"}
Aborted == pc = "failed" /\ CallsOf(trace, "create_pdf") = {}
Paused == pc = "manual"

\* C32: a run of capture_pages ends in one of three ways only.  When it has
\* returned Ok every page is in the list; when it has returned Err the last
\* call was a capture_window or get_window_rect that returned its
\* CaptureFailure; when it waits for Enter the last call was a
\* navigate_to_next_page that returned Err.  And a run that does not stay at
\* the wait for Enter for ever returns: with the loop's own steps taken
\* whenever they can be, the wait for Enter is the only place a run can stay in.
C32_RunReturnsOrWaitsForEnter ==
    /\ [](/\ Completed => (ret = "Ok" /\ captured_images = PathsUpTo(page_count))
          /\ Aborted =>
                /\ ret = "Err"
                /\ trace[Len(trace)].res = "Err"
                /\ trace[Len(trace)].op \in {"capture", "get_rect"}
          /\ Paused =>
                trace[Len(trace)] = Event("navigate", page, "Err", "None")
          /\ pc \in {"activate", "get_rect", "capture", "capture_full", "reactivate",
                      "navigate", "manual", "settle", "create_pdf", "cleanup",
                      "done", "failed"})
    /\ ([]<>(~Paused)) => <>(Completed \/ Aborted)

\* A run that waited for Enter and then returned every page.
C32_Witness ==
    /\ pc = "create_pdf"
    /\ Cardinality(CallsOf(trace, "manual")) = 1
    /\ captured_images = PathsUpTo(2)

-----------------------------------------------------------------------------
(* Targets without a backend (SpecPlatform)                                *)

PlatformCallDone ==
    args.fn = "platform" /\ result # NoResult

\* The error says that the platform is not supported.
TaggedUnsupported(o) ==
    /\ o.res = "Err"
    /\ \/ o.kind = "UnsupportedPlatform"
       \/ o.reason \in {"unsupported platform", "macOS is not supported yet"}

\* C33 as stated: on a target other than windows every call of
\* activate_and_bring_to_front, get_window_rect and ensure_window_focus
\* returns an Err that says the platform is not supported, and none returns Ok
\* without having acted on the window.
C33_UnsupportedPlatformTagged ==
    (PlatformCallDone /\ args.platform # "windows") =>
        /\ TaggedUnsupported(result)
        /\ ~(result.res = "Ok" /\ ~result.acted)

-----------------------------------------------------------------------------
(* The length of one navigation (SpecFault)                                *)

\* The position of a method in the fixed list of try_alternative_navigation.
ChainIndex(method) == CHOOSE i \in 1..Len(methods) : methods[i] = method

\* C34: a navigate_to_next_page call returns Ok or Err after at most four
\* injections: one primary, the first, and then at most three alternatives,
\* which are entries of the fixed list taken in increasing position, so none is
\* injected twice as an alternative and the list is not begun again; this
\* holds also when the primary method is itself in the list.
C34_AtMostFourInjections ==
    last_nav.page > 0 =>
        LET inj == last_nav.inj IN
        /\ last_nav.res \in {"Ok", "Err"}
        /\ Len(inj) \in 1..4
        /\ inj[1].stage = "primary"
        /\ \A k \in 2..Len(inj) :
              /\ inj[k].stage = "alt"
              /\ inj[k].method = methods[k - 1]
        /\ \A j, k \in 2..Len(inj) :
              j < k => ChainIndex(inj[j].method) < ChainIndex(inj[k].method)
        /\ Len(last_nav.calls) <= 5

\* Four injections, all failed, with a primary method that is in the list.
C34_Witness ==
    /\ last_nav.page > 0
    /\ last_nav.res = "Err"
    /\ Len(last_nav.inj) = 4
    /\ \E i \in 1..Len(methods) : methods[i] = last_nav.inj[1].method
    /\ \A k \in 1..4 : last_nav.inj[k].res = "Err"

-----------------------------------------------------------------------------
(* Removal of the page images (Spec)                                       *)

\* C35: a step removes page images only when it is cleanup_temp_files, reached
\* after create_pdf returned Ok, answered with "y"; after a failed
\* capture_pages or create_pdf, and after any other answer, every image that
\* was written is still there.
C35_ImagesRemovedOnlyWhenConfirmed ==
    [][ /\ (\E f \in files : f \notin files') =>
              /\ pc = "cleanup"
              /\ trace[Len(trace)] = Event("create_pdf", 0, "Ok", "None")
              /\ trace'[Len(trace')] = Event("cleanup", 0, "Ok", "confirmed")
        /\ (pc' = "failed"
            \/ (pc' = "done"
                /\ trace'[Len(trace')] = Event("cleanup", 0, "Ok", "declined"))) =>
              /\ files' = {PageFileName(i) : i \in 1..Len(captured_images')}
              /\ \A i \in CapturesOk : PageFileName(trace[i].page) \in files'
      ]_vars

\* The images of a three-page run were removed after the answer "y".
C35_Witness ==
    /\ pc = "done"
    /\ page_count = 3
    /\ trace[Len(trace)] = Event("cleanup", 0, "Ok", "confirmed")
    /\ Len(captured_images) = 3
    /\ files = {}

-----------------------------------------------------------------------------
(* Direct region capture: handles and primitives (SpecDirect)              *)

DirectDone == result.fn = "capture_window_direct_windows"

\* The positions of the log where `name` was called, and where it succeeded.
CallsTo(log, name) == {i \in 1..Len(log) : log[i].call = name}
Succeeded(log, name) == {i \in CallsTo(log, name) : log[i].ok}

\* A handle is acquired by a successful call of `get` and released by a call
\* of `put`; it is settled when every acquisition is followed by its own
\* release and nothing is released that was not acquired.
Settled(log, get, put) ==
    /\ Cardinality(Succeeded(log, get)) = Cardinality(CallsTo(log, put))
    /\ \A g \in Succeeded(log, get) : \E r \in CallsTo(log, put) : r > g
    /\ \A r \in CallsTo(log, put) : \E g \in Succeeded(log, get) : g < r

\* C23: when capture_window_direct_windows returns, Ok or Err, the window
\* device context, the memory device context and the bitmap it acquired have
\* each been released (ReleaseDC, DeleteDC, DeleteObject), and the bitmap has
\* been selected out of the memory device context before it is deleted.
C23_HandlesReleasedOnEveryExit ==
    DirectDone =>
        /\ result.res \in {"Ok", "Err"}
        /\ Settled(result.log, "GetWindowDC", "ReleaseDC")
        /\ Settled(result.log, "CreateCompatibleDC", "DeleteDC")
        /\ Settled(result.log, "CreateCompatibleBitmap", "DeleteObject")
        /\ \A d \in CallsTo(result.log, "DeleteObject") :
               result.log[d - 1].call = "SelectObject"
        /\ result.log[Len(result.log)].call \in {"GetWindowDC", "ReleaseDC"}

\* The error return after both primitives failed, with all three handles held.
C23_Witness ==
    /\ DirectDone /\ result.res = "Err"
    /\ Succeeded(result.log, "CreateCompatibleBitmap") # {}
    /\ CallsTo(result.log, "BitBlt") # {}
    /\ Succeeded(result.log, "BitBlt") = {}
    /\ CallsTo(result.log, "DeleteObject") # {}

\* C24: BitBlt is called once when PrintWindow returned 0, right after it, and
\* never otherwise; the call returns Err without GetDIBits when both returned
\* 0, and goes on to GetDIBits when either succeeded.
C24_BitBltOnceAfterPrintWindowFailed ==
    DirectDone =>
        LET log == result.log
            printed == CallsTo(log, "PrintWindow")
            copied == CallsTo(log, "BitBlt")
        IN /\ Cardinality(printed) <= 1
           /\ Cardinality(copied) <= 1
           /\ (copied # {}) <=> (printed # {} /\ Succeeded(log, "PrintWindow") = {})
           /\ \A b \in copied : log[b - 1].call = "PrintWindow"
           /\ (printed # {} /\ Succeeded(log, "PrintWindow") = {}
                 /\ Succeeded(log, "BitBlt") = {})
                  => (result.res = "Err" /\ CallsTo(log, "GetDIBits") = {})
           /\ (Succeeded(log, "PrintWindow") # {} \/ Succeeded(log, "BitBlt") # {})
                  => /\ Cardinality(CallsTo(log, "GetDIBits")) = 1
                     /\ result.res = (IF Succeeded(log, "GetDIBits") # {}
                                       THEN "Ok" ELSE "Err")
           /\ (printed = {}) => (result.res = "Err" /\ CallsTo(log, "GetDIBits") = {})

\* PrintWindow returned 0, BitBlt succeeded, and the pixels were extracted.
C24_Witness ==
    /\ DirectDone /\ result.res = "Ok"
    /\ CallsTo(result.log, "PrintWindow") # {}
    /\ Succeeded(result.log, "PrintWindow") = {}
    /\ Succeeded(result.log, "BitBlt") # {}
    /\ Succeeded(result.log, "GetDIBits") # {}

-----------------------------------------------------------------------------
(* tubeloader main.rs: one URL, download_attempt and download_single_video *)

\* const MAX_RETRIES in download_single_video
MAX_RETRIES == 3

\* What fetch_video_infos or the download call of one attempt returned:
\* Ok, or Err with the text of the error.
Returned == [ok |-> TRUE, err |-> <<>>]
Raised(e) == [ok |-> FALSE, err |-> e]

\* What one attempt meets: the Result of fetch_video_infos, whether the target
\* file is already on disk, and the Result of the download call.
Attempt(info, exists, download) ==
    [info |-> info, exists |-> exists, download |-> download]

\* DownloadResult::success and DownloadResult::failure (error: None is <<>>)
DownloadResult_success == [success |-> TRUE, error |-> <<>>]
DownloadResult_failure(error) == [success |-> FALSE, error |-> error]

\* Ok(result) and Err(anyhow!(msg)) of download_attempt
AttemptOk(r) == [ok |-> TRUE, result |-> r, err |-> <<>>]
AttemptErr(msg) == [ok |-> FALSE, result |-> DownloadResult_failure(<<>>), err |-> msg]

\* The message download_attempt gives a failed download call, by the words
\* found in the lower-cased error text; every branch ends in the text itself.
categorized_error(e) ==
    LET error_str == to_lowercase(e) IN
    IF contains(error_str, <<"s","o","u","r","c","e"," ","e","m","p","t","y">>) \/ contains(error_str, <<"n","o"," ","f","o","r","m","a","t","s">>)
    THEN <<"U+C601","U+C0C1"," ","U+C18C","U+C2A4","U+B97C"," ","U+CC3E","U+C744",
        " ","U+C218"," ","U+C5C6","U+C74C",":"," ","U+C9C0","U+C5ED"," ",
        "U+C81C","U+D55C",","," ","U+C5F0","U+B839"," ","U+C81C","U+D55C",",",
        " ","U+B610","U+B294"," ","U+D2B9","U+C218"," ","U+C601","U+C0C1"," ",
        "U+D615","U+C2DD","U+C77C"," ","U+C218"," ","U+C788","U+C2B5","U+B2C8",
        "U+B2E4","."," ","U+C6D0","U+BCF8"," ","U+C624","U+B958",":"," ">> \o e
    ELSE IF contains(error_str, <<"n","e","t","w","o","r","k">>) \/ contains(error_str, <<"c","o","n","n","e","c","t","i","o","n">>)
    THEN <<"U+B124","U+D2B8","U+C6CC","U+D06C"," ","U+C5F0","U+ACB0"," ","U+C624",
        "U+B958",":"," ">> \o e
    ELSE IF contains(error_str, <<"p","e","r","m","i","s","s","i","o","n">>) \/ contains(error_str, <<"a","c","c","e","s","s">>)
    THEN <<"U+D30C","U+C77C"," ","U+C4F0","U+AE30"," ","U+AD8C","U+D55C"," ",
        "U+C624","U+B958",":"," ">> \o e
    ELSE IF contains(error_str, <<"s","p","a","c","e">>) \/ contains(error_str, <<"d","i","s","k">>)
    THEN <<"U+B514","U+C2A4","U+D06C"," ","U+ACF5","U+AC04"," ","U+BD80","U+C871",
        ":"," ">> \o e
    ELSE IF contains(error_str, <<"u","n","a","v","a","i","l","a","b","l","e">>) \/ contains(error_str, <<"p","r","i","v","a","t","e">>)
    THEN <<"U+C601","U+C0C1","U+C744"," ","U+C0AC","U+C6A9","U+D560"," ","U+C218",
        " ","U+C5C6","U+C74C"," ","(","U+BE44","U+ACF5","U+AC1C","/","U+C0AD",
        "U+C81C","U+B428",")",":"," ">> \o e
    ELSE IF contains(error_str, <<"a","g","e">>) \/ contains(error_str, <<"r","e","s","t","r","i","c","t","e","d">>)
    THEN <<"U+C5F0","U+B839"," ","U+C81C","U+D55C"," ","U+B610","U+B294"," ",
        "U+C9C0","U+C5ED"," ","U+C81C","U+D55C",":"," ">> \o e
    ELSE IF contains(error_str, <<"l","i","v","e">>)
    THEN <<"U+B77C","U+C774","U+BE0C"," ","U+C2A4","U+D2B8","U+B9BC","U+C740"," ",
        "U+C9C0","U+C6D0","U+B418","U+C9C0"," ","U+C54A","U+C2B5","U+B2C8",
        "U+B2E4",":"," ">> \o e
    ELSE IF contains(error_str, <<"p","r","e","m","i","e","r","e">>)
    THEN <<"U+D504","U+B9AC","U+BBF8","U+C5B4"," ","U+C601","U+C0C1","U+C740"," ",
        "U+C544","U+C9C1"," ","U+C9C0","U+C6D0","U+B418","U+C9C0"," ","U+C54A",
        "U+C2B5","U+B2C8","U+B2E4",":"," ">> \o e
    ELSE <<"U+B2E4","U+C6B4","U+B85C","U+B4DC"," ","U+C2E4","U+D328",":"," ">> \o e

\* download_attempt: fetch_video_infos, the check for an existing file, the
\* download call.  An existing file is returned as Ok(DownloadResult::failure).
download_attempt(a, filename) ==
    IF ~a.info.ok
    THEN LET error_str == to_lowercase(a.info.err) IN
         IF /\ contains(error_str, <<"u","n","k","n","o","w","n"," ","v","a","r","i","a","n","t">>)
            /\ contains(error_str, <<"s","r","t">>)
            /\ \/ contains(error_str, <<"j","s","o","n","3">>)
               \/ contains(error_str, <<"v","t","t">>)
               \/ contains(error_str, <<"t","t","m","l">>)
         THEN AttemptErr(<<"U+C790","U+B9C9"," ","U+D615","U+C2DD"," ","U+D638","U+D658"," ",
        "U+BB38","U+C81C"," ","U+AC10","U+C9C0",":"," ","U+C774"," ","U+C601",
        "U+C0C1","U+C5D0","U+B294"," ","U+C9C0","U+C6D0","U+B418","U+C9C0"," ",
        "U+C54A","U+B294"," ","U+C790","U+B9C9"," ","U+D615","U+C2DD","(","S",
        "R","T",")","U+C774"," ","U+D3EC","U+D568","U+B418","U+C5B4"," ",
        "U+C788","U+C2B5","U+B2C8","U+B2E4","."," ","U+D604","U+C7AC"," ","y",
        "t","-","d","l","p"," ","U+D06C","U+B808","U+C774","U+D2B8","U+C5D0",
        "U+C11C"," ","S","R","T"," ","U+C790","U+B9C9","U+C774"," ","U+C644",
        "U+C804","U+D788"," ","U+C9C0","U+C6D0","U+B418","U+C9C0"," ","U+C54A",
        "U+C544"," ","U+BC1C","U+C0DD","U+D558","U+B294"," ","U+BB38","U+C81C",
        "U+C785","U+B2C8","U+B2E4","."," ","U+D574","U+ACB0","U+CC45",":"," ",
        "U+B2E4","U+B978"," ","U+C601","U+C0C1","U+C744"," ","U+C2DC","U+B3C4",
        "U+D558","U+AC70","U+B098"," ","-","-","s","k","i","p","-","s","u","b",
        "t","i","t","l","e","s"," ","U+C635","U+C158","U+C744"," ","U+C0AC",
        "U+C6A9","U+D558","U+C138","U+C694","."," ","U+C6D0","U+BCF8"," ",
        "U+C624","U+B958",":"," ">> \o a.info.err)
         ELSE AttemptErr(<<"U+C601","U+C0C1"," ","U+C815","U+BCF4"," ","U+B85C","U+B4DC"," ",
        "U+C2E4","U+D328",":"," ">> \o a.info.err)
    ELSE IF a.exists
    THEN AttemptOk(DownloadResult_failure(<<"U+D30C","U+C77C","U+C774"," ","U+C774","U+BBF8"," ","U+C874","U+C7AC",
        "U+D569","U+B2C8","U+B2E4",":"," ">> \o filename))
    ELSE IF a.download.ok
    THEN AttemptOk(DownloadResult_success)
    ELSE AttemptErr(categorized_error(a.download.err))

\* The errors download_single_video does not retry.
NonRetryable(e) ==
    LET error_str == to_lowercase(e) IN
    \/ contains(error_str, <<"p","r","i","v","a","t","e">>)
    \/ contains(error_str, <<"d","e","l","e","t","e","d">>)
    \/ contains(error_str, <<"u","n","a","v","a","i","l","a","b","l","e">>)
    \/ contains(error_str, <<"c","o","p","y","r","i","g","h","t">>)

DigitChars == <<"0", "1", "2", "3", "4", "5", "6", "7", "8", "9">>
Display(n) == [i \in 1..Len(DigitsOf(n)) |-> DigitChars[DigitsOf(n)[i] + 1]]

\* What download_single_video returns, with the number of download_attempt
\* calls it made and of the RETRY_DELAY_MS sleeps it took.
Downloaded(r, attempts) ==
    [result |-> r, attempts |-> attempts, sleeps |-> attempts - 1]

\* Mutant of download_single_video: a non-retryable error is retried like any
\* other.
RECURSIVE download_single_video_retry_all(_, _, _)
download_single_video_retry_all(outcomes, filename, attempt) ==
    IF attempt > MAX_RETRIES
    THEN Downloaded(DownloadResult_failure(<<"U+C54C"," ","U+C218"," ","U+C5C6","U+B294"," ","U+C624","U+B958">>), MAX_RETRIES)
    ELSE LET r == download_attempt(outcomes[attempt], filename) IN
         IF r.ok
         THEN Downloaded(r.result, attempt)
         ELSE IF attempt < MAX_RETRIES
         THEN download_single_video_retry_all(outcomes, filename, attempt + 1)
         ELSE Downloaded(DownloadResult_failure(
                  <<"U+CD5C","U+C885"," ","U+C2E4","U+D328"," ","(">> \o Display(MAX_RETRIES) \o <<"U+D68C"," ","U+C2DC","U+B3C4",")",":"," ">> \o r.err), attempt)

\* download_single_video from `attempt` on: the body of
\* `for attempt in 1..=MAX_RETRIES`, outcomes[attempt] being what that attempt
\* meets.
RECURSIVE download_single_video(_, _, _)
download_single_video(outcomes, filename, attempt) ==
    IF attempt > MAX_RETRIES
    THEN Downloaded(DownloadResult_failure(<<"U+C54C"," ","U+C218"," ","U+C5C6","U+B294"," ","U+C624","U+B958">>), MAX_RETRIES)
    ELSE LET r == download_attempt(outcomes[attempt], filename) IN
         IF r.ok
         THEN Downloaded(r.result, attempt)
         ELSE IF NonRetryable(r.err)
         THEN Downloaded(DownloadResult_failure(
                  <<"U+C7AC","U+C2DC","U+B3C4"," ","U+BD88","U+AC00","U+B2A5","U+D55C"," ",
        "U+C624","U+B958",":"," ">> \o r.err), attempt)
         ELSE IF attempt < MAX_RETRIES
         THEN download_single_video(outcomes, filename, attempt + 1)
         ELSE Downloaded(DownloadResult_failure(
                  <<"U+CD5C","U+C885"," ","U+C2E4","U+D328"," ","(">> \o Display(MAX_RETRIES) \o <<"U+D68C"," ","U+C2DC","U+B3C4",")",":"," ">> \o r.err), attempt)

\* Error texts of yt-dlp: two that hold a non-retryable word in another case,
\* one that download_attempt files under the network and that holds one too,
\* and two that hold none.
ErrorTexts ==
    { <<"P","r","i","v","a","t","e"," ","v","i","d","e","o">>,
      <<"V","i","d","e","o"," ","D","E","L","E","T","E","D"," ","b","y"," ","u",
        "p","l","o","a","d","e","r">>,
      <<"n","e","t","w","o","r","k"," ","u","n","a","v","a","i","l","a","b","l",
        "e">>,
      <<"B","l","o","c","k","e","d"," ","o","n"," ","C","o","p","y","r","i","g",
        "h","t"," ","g","r","o","u","n","d","s">>,
      <<"c","o","n","n","e","c","t","i","o","n"," ","r","e","s","e","t">>,
      <<"H","T","T","P"," ","5","0","3">> }

\* What an attempt can meet.
AttemptOutcomes ==
    {Attempt(Raised(e), FALSE, Returned) : e \in ErrorTexts}
        \cup {Attempt(Raised(<<"u","n","k","n","o","w","n"," ","v","a","r","i","a","n","t"," ","s","r",
        "t",","," ","e","x","p","e","c","t","e","d"," ","o","n","e"," ","o","f",
        " ","j","s","o","n","3",","," ","v","t","t">>), FALSE, Returned)}
        \cup {Attempt(Returned, TRUE, Returned), Attempt(Returned, FALSE, Returned)}
        \cup {Attempt(Returned, FALSE, Raised(e)) : e \in ErrorTexts}

\* The file name download_attempt builds from the sanitized title.
FileNames == {<<"v","i","d","e","o",".","m","p","4">>, <<"M","y"," ","P","r","i","v","a","t","e"," ","L","i","f","e",".","m","p",
        "4">>}

\* download_single_video on one URL, for every course the attempts can take.
InitRetry ==
    /\ LoopIdle
    /\ \E outcomes \in [1..MAX_RETRIES -> AttemptOutcomes], filename \in FileNames :
         args = [fn |-> "url", outcomes |-> outcomes, filename |-> filename]
    /\ result = NoResult

DownloadSingleVideo ==
    /\ args.fn = "url"
    /\ result = NoResult
    /\ LET d == download_single_video(args.outcomes, args.filename, 1) IN
         result' = [fn |-> "download_single_video", result |-> d.result,
                    attempts |-> d.attempts, sleeps |-> d.sleeps]
    /\ UNCHANGED <<args, loop_vars>>

NextRetry == DownloadSingleVideo

SpecRetry == InitRetry /\ [][NextRetry]_vars

-----------------------------------------------------------------------------
(* Properties of download_single_video (SpecRetry)                         *)

RetryDone == result.fn = "download_single_video"

\* What attempt k of the drawn course returns.
AttemptAt(k) == download_attempt(args.outcomes[k], args.filename)

\* The error attempt k ends in: the text of its Err, or the error of the
\* failure result it returns.
ErrorOf(k) ==
    IF AttemptAt(k).ok THEN AttemptAt(k).result.error ELSE AttemptAt(k).err

SuccessfulAttempt(k) == AttemptAt(k).ok /\ AttemptAt(k).result.success
ExistingFile(k) == AttemptAt(k).ok /\ ~AttemptAt(k).result.success

\* C37 as stated: at most 3 attempts; an error holding private, deleted,
\* unavailable or copyright ends the URL at that attempt with a failure
\* result; every other error is retried until the 3rd attempt, whose failure
\* gives a failure result; the first successful attempt ends the URL.
C37_EveryOtherErrorRetried ==
    RetryDone =>
        LET n == result.attempts IN
        /\ n \in 1..MAX_RETRIES
        /\ \A k \in 1..(n - 1) :
               ~SuccessfulAttempt(k) /\ ~NonRetryable(ErrorOf(k))
        /\ SuccessfulAttempt(n) => result.result.success
        /\ ~SuccessfulAttempt(n) =>
               /\ ~result.result.success
               /\ NonRetryable(ErrorOf(n)) \/ n = MAX_RETRIES

\* C37 (amended): at most 3 attempts; an attempt that returns Err with a text
\* holding private, deleted, unavailable or copyright ends the URL with a
\* failure result; every other Err is retried until the 3rd attempt, whose Err
\* gives a failure result; an attempt that returns a result ends the URL at
\* once with that result, be it the success or the failure result of a target
\* file that already exists.
C37_ErrRetriedResultReturned ==
    RetryDone =>
        LET n == result.attempts IN
        /\ n \in 1..MAX_RETRIES
        /\ result.sleeps = n - 1
        /\ \A k \in 1..(n - 1) :
               ~AttemptAt(k).ok /\ ~NonRetryable(AttemptAt(k).err)
        /\ AttemptAt(n).ok => result.result = AttemptAt(n).result
        /\ ~AttemptAt(n).ok =>
               /\ ~result.result.success
               /\ contains(result.result.error, AttemptAt(n).err)
               /\ NonRetryable(AttemptAt(n).err) \/ n = MAX_RETRIES

\* The second attempt finds the target file on disk after a retried error: the
\* URL ends there with a failure result whose text holds none of the words.
C37_Witness ==
    /\ RetryDone
    /\ result.attempts = 2
    /\ ExistingFile(2)
    /\ ~result.result.success
    /\ ~NonRetryable(result.result.error)

-----------------------------------------------------------------------------
(* tubeloader main.rs: download_videos, the semaphore and the stream of     *)
(* download futures (SpecDownload, SpecDownloadLive)                        *)

\* Largest number of validated URLs and largest `concurrent` the model draws.
MaxUrls == 3
MaxConcurrent == 3

\* Mutant of concurrent: the semaphore and the buffer are sized one above the
\* configured value.
concurrent_plus_one(cli) == cli.concurrent + 1

\* cli.concurrent, as Semaphore::new and buffer_unordered read it.
concurrent(cli) == cli.concurrent

\* tokio::sync::Semaphore::new(permits)
Semaphore_new(permits) == permits

\* Mutant of collect: only successful results are kept.
collect_successes(results, r) == IF r.success THEN Append(results, r) ELSE results

\* collect(): each item the stream yields is pushed onto the Vec.
collect(results, r) == Append(results, r)

\* The courses the attempts of one URL take in this model: success at once, a
\* retried error and then success, three retried errors, a non-retryable
\* error, and a target file that already exists.
Downloads == Attempt(Returned, FALSE, Returned)
Transient == Attempt(Returned, FALSE, Raised(<<"c","o","n","n","e","c","t","i","o","n"," ","r","e","s","e","t">>))
Courses ==
    { <<Downloads, Downloads, Downloads>>,
      <<Transient, Downloads, Downloads>>,
      <<Transient, Transient, Transient>>,
      <<Attempt(Raised(<<"P","r","i","v","a","t","e"," ","v","i","d","e","o">>), FALSE, Returned), Downloads, Downloads>>,
      <<Attempt(Returned, TRUE, Returned), Downloads, Downloads>> }

\* What download_single_video returns on these courses.
SingleVideoResults ==
    {download_single_video(course, <<"v","i","d","e","o",".","m","p","4">>, 1) : course \in Courses}

\* main calls download_videos with at least one validated URL; `concurrent`
\* is any usize, 0 included.
InitDownload ==
    /\ LoopIdle
    /\ \E urls \in 1..MaxUrls, c \in 0..MaxConcurrent :
         args = [fn |-> "urls", urls |-> urls, concurrent |-> c]
    /\ result = NoResult

\* The futures buffer_unordered holds: polled from the stream, not yet
\* yielded.
in_progress_queue(r) ==
    {i \in DOMAIN r.tasks : r.tasks[i] \in {"waiting", "downloading"}}

\* download_videos up to collect().await: the semaphore, the stream over the
\* enumerated URLs and the buffer of at most cli.concurrent futures.
DownloadVideos ==
    /\ args.fn = "urls"
    /\ result = NoResult
    /\ result' = [fn |-> "download_videos",
                  permits |-> Semaphore_new(concurrent(args)),
                  max |-> concurrent(args),
                  next |-> 1,
                  is_done |-> FALSE,
                  tasks |-> [i \in 1..args.urls |-> "queued"],
                  results |-> <<>>,
                  ret |-> "None"]
    /\ UNCHANGED <<args, loop_vars>>

\* BufferUnordered::poll_next: while fewer than max futures are held, the
\* stream is polled; it hands over the future of the next URL, or ends.
PollStream ==
    /\ result.fn = "download_videos"
    /\ result.ret = "None"
    /\ ~result.is_done
    /\ Cardinality(in_progress_queue(result)) < result.max
    /\ IF result.next <= args.urls
       THEN result' = [result EXCEPT !.tasks[result.next] = "waiting",
                                     !.next = @ + 1]
       ELSE result' = [result EXCEPT !.is_done = TRUE]
    /\ UNCHANGED <<args, loop_vars>>

\* semaphore.acquire().await: a held future takes a permit when one is left.
Acquire ==
    /\ result.fn = "download_videos"
    /\ \E i \in DOMAIN result.tasks :
         /\ result.tasks[i] = "waiting"
         /\ result.permits > 0
         /\ result' = [result EXCEPT !.tasks[i] = "downloading",
                                     !.permits = @ - 1]
    /\ UNCHANGED <<args, loop_vars>>

\* download_single_video(..).await returns: the future ends, _permit is
\* dropped, and the stream yields the DownloadResult to collect().
FinishDownload ==
    /\ result.fn = "download_videos"
    /\ \E i \in DOMAIN result.tasks, d \in SingleVideoResults :
         /\ result.tasks[i] = "downloading"
         /\ result' = [result EXCEPT
                          !.tasks[i] = "finished",
                          !.permits = @ + 1,
                          !.results = collect(@, [url |-> i,
                                                  success |-> d.result.success])]
    /\ UNCHANGED <<args, loop_vars>>

\* The stream ends (no future held, the URLs exhausted), collect() returns the
\* Vec, the summary is printed and download_videos returns Ok(()).
ReturnOk ==
    /\ result.fn = "download_videos"
    /\ result.ret = "None"
    /\ result.is_done
    /\ in_progress_queue(result) = {}
    /\ result' = [result EXCEPT !.ret = "Ok"]
    /\ UNCHANGED <<args, loop_vars>>

NextDownload ==
    DownloadVideos \/ PollStream \/ Acquire \/ FinishDownload \/ ReturnOk

SpecDownload == InitDownload /\ [][NextDownload]_vars

\* The runtime polls every future that can make progress, and every
\* download_single_video call returns.
SpecDownloadLive == SpecDownload /\ WF_vars(NextDownload)

-----------------------------------------------------------------------------
(* Properties of download_videos                                           *)

Started == result.fn = "download_videos"

\* The URLs past the semaphore acquire and not yet finished.
InProgress ==
    IF Started
    THEN {i \in DOMAIN result.tasks : result.tasks[i] = "downloading"}
    ELSE {}

\* C38: at every moment the number of URLs whose download is in progress is
\* at most the configured `concurrent`, in every interleaving of the tasks.
C38_InProgressBounded == Cardinality(InProgress) <= args.concurrent

\* Two of three URLs are in progress with concurrent = 2 and the third is
\* still in the stream.
C38_Witness ==
    /\ Started
    /\ args.concurrent = 2
    /\ args.urls = 3
    /\ Cardinality(InProgress) = 2
    /\ \E i \in DOMAIN result.tasks : result.tasks[i] = "queued"

ReturnedOk == Started /\ result.ret = "Ok"

ResultsOf(i) == {k \in 1..Len(result.results) : result.results[k].url = i}

\* C39: for concurrent >= 1 download_videos eventually returns; when it
\* returns it returns Ok and holds exactly one DownloadResult per URL,
\* successes and failures together; a step that collects a failure changes no
\* other task.
C39_EveryUrlGetsOneResult ==
    /\ [](Started => result.ret \in {"None", "Ok"})
    /\ [](ReturnedOk =>
            /\ Len(result.results) = args.urls
            /\ \A i \in 1..args.urls : Cardinality(ResultsOf(i)) = 1)
    /\ [][Started /\ result'.results # result.results =>
            \A i \in DOMAIN result.tasks :
                result'.tasks[i] # result.tasks[i] =>
                    result'.results = Append(result.results,
                                             result'.results[Len(result'.results)])
                    /\ result'.results[Len(result'.results)].url = i]_vars
    /\ (args.concurrent >= 1) ~> ReturnedOk

\* With one download at a time the first URL fails and the two after it are
\* still downloaded; download_videos returns Ok with three results.
C39_Witness ==
    /\ ReturnedOk
    /\ args.urls = 3
    /\ args.concurrent = 1
    /\ Len(result.results) = 3
    /\ ~result.results[1].success
    /\ result.results[2].success
    /\ result.results[3].success

-----------------------------------------------------------------------------
(* thumbnail_maker main.rs: the batch over the input folder                *)
(* (SpecThumbnail)                                                         *)

\* Largest number of directory entries the model draws.
MaxEntries == 3

\* An entry of the input folder: its extension, whether image::open decodes
\* it, the colour type of the decoded image, and whether its output file can
\* be created and written.
Entry(extension, decodes, color, writable) ==
    [extension |-> extension, decodes |-> decodes, color |-> color,
     writable |-> writable]

Entries ==
    { Entry("txt", FALSE, "None", TRUE),
      Entry("png", TRUE, "Rgb8", TRUE),
      Entry("png", TRUE, "L8", TRUE),
      Entry("png", FALSE, "None", TRUE),
      Entry("png", TRUE, "Rgba8", FALSE) }

\* path.extension().map_or(false, |ext| ext == "png")
is_png(e) == e.extension = "png"

\* optimize_png: image::open, File::create and write_image are each followed
\* by expect, so a failure of any of them panics; to_rgb8 takes every colour
\* type.  The function has no path that returns Err.
optimize_png(e) ==
    IF ~e.decodes THEN "panic"
    ELSE IF ~e.writable THEN "panic"
    ELSE "Ok"

\* webp::Encoder::from_image takes Rgb8 and Rgba8 images and returns Err for
\* the others.
Encoder_from_image(color) == IF color \in {"Rgb8", "Rgba8"} THEN "Ok" ELSE "Err"

\* convert_png_to_webp: image::open, Encoder::from_image and fs::write are
\* each followed by `?`.
convert_png_to_webp(e) ==
    IF ~e.decodes THEN "Err"
    ELSE IF Encoder_from_image(e.color) = "Err" THEN "Err"
    ELSE IF ~e.writable THEN "Err"
    ELSE "Ok"

\* The call the loop of the chosen mode makes for a PNG entry.
process(png_compress, e) ==
    IF png_compress THEN optimize_png(e) ELSE convert_png_to_webp(e)

\* The folders main can be started on, in either mode.
InitThumbnail ==
    /\ LoopIdle
    /\ \E n \in 1..MaxEntries, png_compress \in BOOLEAN :
         \E entries \in [1..n -> Entries] :
            args = [fn |-> "folder", entries |-> entries,
                    png_compress |-> png_compress]
    /\ result = NoResult

\* main up to the loop: the PNG files are counted and the progress bar made.
Main ==
    /\ args.fn = "folder"
    /\ result = NoResult
    /\ result' = [fn |-> "main",
                  png_file_count |->
                      Cardinality({i \in DOMAIN args.entries :
                                      is_png(args.entries[i])}),
                  at |-> 1,
                  processed |-> <<>>,
                  reported |-> <<>>,
                  pb |-> 0,
                  exit |-> "None"]
    /\ UNCHANGED <<args, loop_vars>>

\* One iteration of `for entry in WalkDir::new(input_folder)`: a PNG entry is
\* processed, an Err is printed to stderr and the bar is advanced; a panic
\* inside the call unwinds main.
NextEntry ==
    /\ result.fn = "main"
    /\ result.exit = "None"
    /\ result.at <= Len(args.entries)
    /\ LET e == args.entries[result.at] IN
       IF ~is_png(e)
       THEN result' = [result EXCEPT !.at = @ + 1]
       ELSE LET r == process(args.png_compress, e) IN
            IF r = "panic"
            THEN result' = [result EXCEPT
                               !.processed = Append(@, result.at),
                               !.exit = "panicked"]
            ELSE result' = [result EXCEPT
                               !.processed = Append(@, result.at),
                               !.reported = IF r = "Err"
                                            THEN Append(@, result.at) ELSE @,
                               !.pb = @ + 1,
                               !.at = @ + 1]
    /\ UNCHANGED <<args, loop_vars>>

\* The loop is over: the closing line is printed and main returns.
MainReturns ==
    /\ result.fn = "main"
    /\ result.exit = "None"
    /\ result.at > Len(args.entries)
    /\ result' = [result EXCEPT !.exit = "returned"]
    /\ UNCHANGED <<args, loop_vars>>

NextThumbnail == Main \/ NextEntry \/ MainReturns

SpecThumbnail == InitThumbnail /\ [][NextThumbnail]_vars

-----------------------------------------------------------------------------
(* Properties of the thumbnail_maker batch                                 *)

BatchOver == result.fn = "main" /\ result.exit # "None"

TimesProcessed(i) ==
    Cardinality({k \in 1..Len(result.processed) : result.processed[k] = i})

\* C40: in both modes a file that cannot be processed does not stop the
\* batch: when the run is over every PNG file of the folder has been
\* processed exactly once and every failure has been reported.
C40_FailureDoesNotStopBatch ==
    BatchOver =>
        /\ result.exit = "returned"
        /\ \A i \in DOMAIN args.entries :
               TimesProcessed(i) = IF is_png(args.entries[i]) THEN 1 ELSE 0
        /\ \A i \in DOMAIN args.entries :
               (is_png(args.entries[i])
                   /\ process(args.png_compress, args.entries[i]) # "Ok")
               => \E k \in 1..Len(result.reported) : result.reported[k] = i

====
